---- MODULE Spec2Model ----
(***************************************************************************)
(* Background ingestion pipeline of the Google-Drive upload server:        *)
(*   JobQueue             (server/services/JobQueue.js, src/unnamed/part_003)*)
(*   GoogleDriveProcessor (src/server/services/GoogleDriveProcessor.js)    *)
(*   POST /google-drive   (src/server/routes/upload.js)                    *)
(*   TokenManager         (src/server/services/TokenManager.js)            *)
(*   GET /callback, POST /refresh (src/server/routes/auth.js)              *)
(*   downloadFile, cleanupTempFile (src/server/services/GoogleDriveService.js)*)
(*   uploadFromBuffer, uploadFromPath (src/server/services/GridFSService.js)*)
(*                                                                         *)
(* Node runs every handler to its next await without interruption, so one  *)
(* action is one synchronous segment: from a call or a resumed await up to *)
(* the next await.                                                         *)
(***************************************************************************)
EXTENDS Integers, Sequences, FiniteSets, Bags, TLC

\* ------------------------------------------------------------------ bounds
\* longest file list posted to the route
MaxFiles == 6
\* longest file list handed to JobQueue.createJob directly
MaxApiFiles == 2
\* most direct calls of the JobQueue mutators in one run
MaxApiCalls == 2
\* most I/O calls (refresh, download, read, store, save) that fail in one run
MaxFaults == 1
\* per-file transfers followed through the temp directory
MaxTransfers == 3
\* concurrent downloadFile calls on the shared service instance
MaxDownloads == 2
\* files of a batch whose token block is followed
MaxBatchFiles == 2
\* batches launched in one run
MaxLaunches == 2
\* initialize calls of the server start-up in flight at once
MaxInits == 2
\* progress requests the client's interval sends in one run
MaxPolls == 3
\* progress requests and responses in flight at once
MaxInFlight == 2
\* most chunks in the content of a downloaded file
MaxChunks == 2
\* last instant of the clock, in units of five minutes
MaxNow == 4
\* lifetime the provider gives an access token, in units of five minutes
TokenLifetime == 3
\* getValidAccessToken calls followed in one run
MaxTmCalls == 1
\* jobs followed with their timestamps
MaxGcJobs == 2
\* cleanupOldJobs calls in one run, and the largest maxAge handed to them
MaxGcCalls == 2
MaxGcAge == 2

\* ------------------------------------------------------- program constants
\* const batchSize = 5 in processJob
batchSize == 5

JobIds == {"job_1"}

\* expiryDate > Date.now() + (5 * 60 * 1000): the margin, one unit of the clock
FiveMinutes == 1
\* accessToken.substring(0, 10)
KeyLen == 10
\* tokenAge > (sessionTokens.expiresIn * 1000)
SecondsToMs == 1000

TerminalStatuses == {"completed", "completed_with_errors", "failed"}
Statuses == {"pending", "processing"} \cup TerminalStatuses

\* error messages
ErrAlreadyProcessed == "Job is already being processed"
ErrNotFound == "Job not found"
ErrNotPending == "Job is not pending"
ErrNoSession == "User session with Google Drive access required"
ErrNoFiles == "No Google Drive files found in job data"
ErrAuth == "Authentication failed. Please log in again."
\* what getValidAccessToken rejects with
ErrRefresh == "Token refresh failed"
ErrDownload == "Download failed"
ErrStore == "Failed to upload buffer to GridFS"
ErrSave == "File save failed"
NoError == "null"

VARIABLES
    jobs,         \* JobQueue.jobs: Map jobId -> job
    currentJobs,  \* GoogleDriveProcessor.currentJobs: Set of jobIds
    userSession,  \* the session object handed to processJob, per job
    proc,         \* per job: where its processJob/processFilesBatch call stands
    fpc,          \* per job, per file: where its processSingleFile call stands
    thrown,       \* per job: error thrown by the latest processJob call
    faults,       \* environment: number of I/O calls that have failed
    apiCalls      \* environment: number of direct JobQueue mutator calls made

procVars == <<jobs, currentJobs, userSession, proc, fpc, thrown, faults, apiCalls>>

\* the temp directory of GoogleDriveService, seen from each per-file transfer
VARIABLES
    xfers         \* per transfer: processSingleFile at the grain of downloadFile

xferVars == <<xfers>>

\* TokenManager, the session a login stores, and the provider behind them
VARIABLES
    now,          \* Date.now(); the instants followed are five minutes apart
    provider,     \* the provider: access token issued -> its expiry instant
    tokenCache,   \* TokenManager.tokenCache: Map cacheKey -> entry
    session,      \* req.session.googleTokens of the latest login
    calls,        \* per call slot: where a getValidAccessToken call stands
    handed        \* the access token last handed to downloadFile, and when

tmVars == <<now, provider, tokenCache, session, calls, handed>>

\* the job queue with its timestamps as instants of the clock
VARIABLES
    stamped,      \* JobQueue.jobs: jobId -> status and timestamps
    removed,      \* ids that cleanupOldJobs has deleted
    gc            \* the cleanupOldJobs calls made, and the maxAge of the last

gcVars == <<stamped, removed, gc>>

\* POST /google-drive seen from the client
VARIABLES
    http          \* the latest request received and the response sent to it

routeVars == <<http>>

\* GridFSService.uploadFromBuffer / uploadFromPath
VARIABLES
    store         \* the store operation: its streams, its timer, its promise

storeVars == <<store>>

\* the log of a job
VARIABLES
    joblog        \* job.logs, and the number of addLog calls made on the job

logVars == <<joblog>>

\* the services modelled further down, each on its own variables
svcVars == <<routeVars, storeVars, logVars>>

\* the shared ServerGoogleDriveService instance and the downloadFile calls on it
VARIABLES
    drive,        \* this.drive: the access token the Drive client was built with
    dls           \* per call: where downloadFile stands, its requests, its bytes

dlVars == <<drive, dls>>

\* the token blocks of the files of a batch
VARIABLES
    bt            \* the session of the job, each file's token block, the
                  \* refresh exchanges sent for the batch

btVars == <<bt>>

\* the GridFSService instance and one operation called on it
VARIABLES
    gfs,          \* bucket, isInitialized, the database connection, the
                  \* initialize calls of the server start-up in flight
    op            \* the operation: its name, where it stands, its outcome

gfsVars == <<gfs, op>>

\* the browser client polling the progress of one job
VARIABLES
    poll          \* the interval, the requests and responses in flight, the
                  \* uploading indicator, the job's status on the server

pollVars == <<poll>>

\* further services, each on its own variables
moreVars == <<dlVars, btVars, gfsVars, pollVars>>

\* what the job pipeline above leaves alone
auxVars == <<xferVars, tmVars, gcVars, svcVars, moreVars>>

vars == <<procVars, auxVars>>

\* what the transfers of the temp-file machine leave alone
xferFrame == <<procVars, tmVars, gcVars, svcVars, moreVars>>

\* what TokenManager and the login leave alone
tmFrame == <<procVars, xferVars, gcVars, svcVars, moreVars>>

\* what the timestamped job queue leaves alone, the clock apart
gcFrame ==
    <<procVars, xferVars, provider, tokenCache, session, calls, handed, svcVars,
      moreVars>>

\* what a request to the route leaves alone, the job pipeline apart
routeFrame == <<xferVars, tmVars, gcVars, storeVars, logVars, moreVars>>

\* what a store operation leaves alone
storeFrame ==
    <<procVars, xferVars, tmVars, gcVars, routeVars, logVars, moreVars>>

\* what addLog leaves alone
logFrame ==
    <<procVars, xferVars, tmVars, gcVars, routeVars, storeVars, moreVars>>

\* what the downloadFile calls leave alone
dlFrame ==
    <<procVars, xferVars, tmVars, gcVars, svcVars, btVars, gfsVars, pollVars>>

\* what the GridFSService leaves alone
gfsFrame ==
    <<procVars, xferVars, tmVars, gcVars, svcVars, dlVars, btVars, pollVars>>

\* what the polling client leaves alone
pollFrame ==
    <<procVars, xferVars, tmVars, gcVars, svcVars, dlVars, btVars, gfsVars>>

\* what the token blocks of a batch leave alone, the provider and the token
\* cache apart
btFrame ==
    <<procVars, xferVars, now, session, calls, handed, gcVars, svcVars, dlVars,
      gfsVars, pollVars>>

\* ----------------------------------------------------------------- inputs
\* file metadata as validated by the route: id and name present
FileMeta(k) == [id |-> k, name |-> k]
FilesOf(n) == [k \in 1..n |-> FileMeta(k)]

\* req.session / userSession argument
NullSession ==
    [present |-> FALSE, googleTokens |-> FALSE, expired |-> FALSE, refreshToken |-> FALSE]
NoTokenSession ==
    [present |-> TRUE, googleTokens |-> FALSE, expired |-> FALSE, refreshToken |-> FALSE]
\* expired: the outcome of the test tokenAge > expiresIn * 1000 that
\* processSingleFile makes on the session's tokens; refreshToken: one is stored
TokenSession(e, r) ==
    [present |-> TRUE, googleTokens |-> TRUE, expired |-> e, refreshToken |-> r]
\* a login stores a refresh token; the access token is fresh or has expired
TokenSessions == {TokenSession(e, TRUE) : e \in BOOLEAN}
Sessions == {NullSession, NoTokenSession, TokenSession(TRUE, FALSE)} \cup TokenSessions

\* jobData handed to createJob: each key present or not
JobData(hasGd, gd, hasFiles, fl) ==
    [hasGoogleDriveFiles |-> hasGd, googleDriveFiles |-> gd,
     hasFiles |-> hasFiles, files |-> fl]

\* ---------------------------------------------------------------- JobQueue
\* results.successful and results.failed are arrays that are only pushed to
\* and never read by index: they are kept as bags (entries with their
\* multiplicity), the order of the pushes is not kept.
NewJob(jobData) ==
    [status |-> "pending",
     progress |-> [total |-> IF jobData.hasFiles THEN Len(jobData.files) ELSE 0,
                   completed |-> 0, failed |-> 0, current |-> 0],
     data |-> jobData,
     results |-> [successful |-> EmptyBag, failed |-> EmptyBag],
     timestamps |-> [started |-> FALSE, completed |-> FALSE],
     currentFile |-> 0,
     error |-> NoError]

createJob(js, jobId, jobData) == js @@ (jobId :> NewJob(jobData))

\* progressData of updateJobProgress; -1 stands for an undefined field
Undef == -1
ProgressData(current, completed, failed, fileName) ==
    [current |-> current, completed |-> completed, failed |-> failed,
     fileName |-> fileName]

\* updateJobProgress storing progressData.current || 0: a call without
\* current, as the ones that end a file, puts the cursor back to 0
updateJobProgress_mutResetCurrent(js, jobId, pd) ==
    IF jobId \notin DOMAIN js THEN js
    ELSE [js EXCEPT
            ![jobId].progress.current =
                IF pd.current # Undef THEN pd.current ELSE 0,
            ![jobId].progress.completed =
                IF pd.completed # Undef THEN pd.completed ELSE @,
            ![jobId].progress.failed =
                IF pd.failed # Undef THEN pd.failed ELSE @,
            ![jobId].currentFile =
                IF pd.fileName # Undef /\ pd.fileName # 0 THEN pd.fileName ELSE @]

updateJobProgress(js, jobId, pd) ==
    IF jobId \notin DOMAIN js THEN js
    ELSE [js EXCEPT
            ![jobId].progress.current =
                IF pd.current # Undef THEN pd.current ELSE @,
            ![jobId].progress.completed =
                IF pd.completed # Undef THEN pd.completed ELSE @,
            ![jobId].progress.failed =
                IF pd.failed # Undef THEN pd.failed ELSE @,
            ![jobId].currentFile =
                IF pd.fileName # Undef /\ pd.fileName # 0 THEN pd.fileName ELSE @]
\* updateJobStatus with completed_with_errors missing from the list of
\* statuses that stamp timestamps.completed
updateJobStatus_mutNoStamp(js, jobId, status, error) ==
    IF jobId \notin DOMAIN js THEN js
    ELSE [js EXCEPT
            ![jobId].status = status,
            ![jobId].timestamps.started =
                IF status = "processing" /\ ~@ THEN TRUE ELSE @,
            ![jobId].timestamps.completed =
                IF status \in {"completed", "failed"} THEN TRUE ELSE @,
            ![jobId].currentFile =
                IF status \in {"completed", "failed"} THEN 0 ELSE @,
            ![jobId].error = IF error # NoError THEN error ELSE @]

updateJobStatus(js, jobId, status, error) ==
    IF jobId \notin DOMAIN js THEN js
    ELSE [js EXCEPT
            ![jobId].status = status,
            ![jobId].timestamps.started =
                IF status = "processing" /\ ~@ THEN TRUE ELSE @,
            ![jobId].timestamps.completed =
                IF status \in TerminalStatuses THEN TRUE ELSE @,
            ![jobId].currentFile =
                IF status \in TerminalStatuses THEN 0 ELSE @,
            ![jobId].error = IF error # NoError THEN error ELSE @]
\* addJobResult whose failure branch loses the increment of progress.failed
addJobResult_mutLostUpdate(js, jobId, result, isSuccess) ==
    IF jobId \notin DOMAIN js THEN js
    ELSE IF isSuccess
         THEN [js EXCEPT
                 ![jobId].results.successful = @ (+) SetToBag({result}),
                 ![jobId].progress.completed = @ + 1]
         ELSE [js EXCEPT
                 ![jobId].results.failed = @ (+) SetToBag({result})]

\* addJobResult counting a success in progress.completed and pushing it to
\* results.failed
addJobResult_mutWrongList(js, jobId, result, isSuccess) ==
    IF jobId \notin DOMAIN js THEN js
    ELSE IF isSuccess
         THEN [js EXCEPT
                 ![jobId].results.failed = @ (+) SetToBag({result}),
                 ![jobId].progress.completed = @ + 1]
         ELSE [js EXCEPT
                 ![jobId].results.failed = @ (+) SetToBag({result}),
                 ![jobId].progress.failed = @ + 1]

addJobResult(js, jobId, result, isSuccess) ==
    IF jobId \notin DOMAIN js THEN js
    ELSE IF isSuccess
         THEN [js EXCEPT
                 ![jobId].results.successful = @ (+) SetToBag({result}),
                 ![jobId].progress.completed = @ + 1]
         ELSE [js EXCEPT
                 ![jobId].results.failed = @ (+) SetToBag({result}),
                 ![jobId].progress.failed = @ + 1]

\* ---------------------------------------------------- GoogleDriveProcessor
SuccessResult(file) == [googleDriveId |-> file.id, error |-> NoError]
FailureResult(file, msg) == [googleDriveId |-> file.id, error |-> msg]

\* const googleDriveFiles = job.data.googleDriveFiles || job.data.files
JobFiles(job) ==
    IF job.data.hasGoogleDriveFiles THEN job.data.googleDriveFiles
    ELSE IF job.data.hasFiles THEN job.data.files
    ELSE <<>>

Min(a, b) == IF a < b THEN a ELSE b

\* files i+1 .. i+batchSize of the list: googleDriveFiles.slice(i, i + batchSize)
BatchOf(i, n) == (i + 1)..Min(i + batchSize, n)

\* first synchronous segment of processSingleFile for the files lo..hi, in
\* the order batch.map calls them
RECURSIVE startFiles(_, _, _, _, _)
startFiles(js, jobId, files, lo, hi) ==
    IF lo > hi THEN js
    ELSE startFiles(
            updateJobProgress(js, jobId,
                ProgressData(lo, Undef, Undef, files[lo].name)),
            jobId, files, lo + 1, hi)

\* where processSingleFile suspends first: on the refresh, or on the download
FirstAwait(sess) ==
    IF sess.expired /\ sess.refreshToken THEN "token" ELSE "download"

\* batches: batch.map calls made; delays: inter-batch timers started
IdleProc == [pc |-> "idle", i |-> 0, files |-> <<>>, batches |-> 0, delays |-> 0]

\* a processSingleFile call that has not begun: let tempFilePath = null, and
\* no file of its own in the temp directory
\* no job running. expired: the outcome of the test tokenAge > expiresIn *
\* 1000 on userSession.googleTokens; accessToken: the session's access token;
\* files: each file's token block; exchanges: refreshAccessToken requests sent
\* since the batch was launched; launches: batches launched so far
NoTokenBlock == [pc |-> "none", result |-> <<>>]
IdleBatch ==
    [pc |-> "idle", expired |-> FALSE, accessToken |-> <<>>,
     files |-> [k \in 1..MaxBatchFiles |-> NoTokenBlock],
     exchanges |-> 0, launches |-> 0]

\* no operation called on the GridFSService. init: the initialize call made
\* by the operation's ensureInitialized; initializedAtTouch: isInitialized at
\* the moment the operation first used this.bucket
IdleOp ==
    [name |-> "none", pc |-> "idle", init |-> "none",
     initializedAtTouch |-> FALSE, error |-> "none"]

\* the client before pollUploadProgress is called. pc: polling while the
\* interval is set, stopped once it is cleared; jobStatus: the job's status in
\* the server's queue; reqs: requests on their way; resps: responses on their
\* way; clearPending: the one-second timer that clears the indicator is set;
\* terminalSeen: a response with a terminal status has been handled;
\* sentAfterTerminal: a request was sent after that
IdlePoll ==
    [pc |-> "idle", jobStatus |-> "pending", reqs |-> 0, resps |-> <<>>,
     isUploading |-> FALSE, clearPending |-> FALSE, timedOut |-> FALSE,
     polls |-> 0, terminalSeen |-> FALSE, sentAfterTerminal |-> FALSE]

\* this.drive = null
NoClient == "null"

\* no downloadFile call made in this slot yet. metaAuth, contentAuth: the token
\* of the client each request was sent with; size, sent, flushed: chunks of the
\* file, chunks handed to the write stream, chunks written to the staging
\* file; readLen: chunks in the buffer the processor read from the staging file
IdleDownload ==
    [pc |-> "idle", accessToken |-> NoClient, metaAuth |-> NoClient,
     contentAuth |-> NoClient, size |-> 0, sent |-> 0, flushed |-> 0,
     readLen |-> Undef]

\* no store operation called yet; first, firstAt: the first event that reached
\* a handler of the operation, and when
IdleStore ==
    [via |-> "none", pc |-> "idle", outcome |-> "pending", elapsed |-> 0,
     timer |-> FALSE, destroyed |-> FALSE, finished |-> FALSE, faults |-> 0,
     first |-> "none", firstAt |-> 0]

\* no response sent: the handler goes on
NoResponse == [status |-> 0, jobId |-> "null", totalFiles |-> Undef]

\* no request received yet
NoRequest ==
    [body |-> [kind |-> "none", list |-> <<>>], session |-> NullSession,
     response |-> NoResponse]

IdleTransfer ==
    [pc |-> "idle", tempFilePath |-> FALSE, onDisk |-> FALSE, unlinking |-> FALSE,
     blob |-> FALSE, recorded |-> "none"]

\* access tokens are strings, here sequences of characters; the provider's
\* all begin alike, and two of these differ only after the tenth character
TokenPrefix == <<"y", "a", "2", "9", ".", "a", "0", "A", "R">>
AccessTokens ==
    {TokenPrefix \o <<"r", "X">>, TokenPrefix \o <<"r", "Y">>,
     TokenPrefix \o <<"d", "X">>}
\* currentAccessToken = null
NoToken == <<>>

\* generateTokenCacheKey: `token_${accessToken.substring(0, 10)}`
generateTokenCacheKey(accessToken) ==
    <<"token_">> \o SubSeq(accessToken, 1,
                           IF Len(accessToken) < KeyLen THEN Len(accessToken)
                           ELSE KeyLen)

NoSession ==
    [present |-> FALSE, accessToken |-> NoToken, refreshToken |-> FALSE,
     expiresIn |-> 0, createdAt |-> 0]
IdleCall ==
    [pc |-> "idle", current |-> NoToken, result |-> NoToken, refreshes |-> 0,
     forSession |-> FALSE]
NoHand == [some |-> FALSE, accessToken |-> NoToken, at |-> 0]

Init ==
    /\ xfers = [t \in 1..MaxTransfers |-> IdleTransfer]
    /\ now = 0
    /\ provider = <<>>
    /\ tokenCache = <<>>
    /\ session = NoSession
    /\ calls = [c \in 1..MaxTmCalls |-> IdleCall]
    /\ handed = NoHand
    /\ stamped = <<>>
    /\ removed = {}
    /\ gc = [calls |-> 0, maxAge |-> 0]
    /\ http = NoRequest
    /\ store = IdleStore
    /\ joblog = [logs |-> <<>>, added |-> 0]
    /\ drive = NoClient
    /\ bt = IdleBatch
    /\ gfs = [database |-> FALSE, bucket |-> FALSE, isInitialized |-> FALSE,
              inits |-> 0]
    /\ op = IdleOp
    /\ poll = IdlePoll
    /\ dls = [d \in 1..MaxDownloads |-> IdleDownload]
    /\ jobs = <<>>
    /\ currentJobs = {}
    /\ userSession = [j \in JobIds |-> NullSession]
    /\ proc = [j \in JobIds |-> IdleProc]
    /\ fpc = [j \in JobIds |-> <<>>]
    /\ thrown = [j \in JobIds |-> NoError]
    /\ faults = 0
    /\ apiCalls = 0

\* processJob without the tests on currentJobs and on the pending status: a
\* second call on a job being processed starts its files again
processJob_mutNoGuards(js, jobId, sess) ==
    IF jobId \notin DOMAIN js THEN
        /\ thrown' = [thrown EXCEPT ![jobId] = ErrNotFound]
        /\ jobs' = js
        /\ UNCHANGED <<currentJobs, userSession, proc, fpc, faults, apiCalls>>
    ELSE IF ~sess.present \/ ~sess.googleTokens THEN
        /\ thrown' = [thrown EXCEPT ![jobId] = ErrNoSession]
        /\ jobs' = js
        /\ UNCHANGED <<currentJobs, userSession, proc, fpc, faults, apiCalls>>
    ELSE
        LET js1 == updateJobStatus(js, jobId, "processing", NoError)
            files == JobFiles(js1[jobId])
            n == Len(files)
        IN  IF n = 0 THEN
                /\ jobs' = updateJobStatus(js1, jobId, "failed", ErrNoFiles)
                /\ thrown' = [thrown EXCEPT ![jobId] = ErrNoFiles]
                /\ proc' = [proc EXCEPT ![jobId] = [IdleProc EXCEPT !.pc = "done"]]
                /\ UNCHANGED <<currentJobs, userSession, fpc, faults, apiCalls>>
            ELSE
                /\ jobs' = startFiles(js1, jobId, files, 1, Min(batchSize, n))
                /\ currentJobs' = currentJobs \cup {jobId}
                /\ userSession' = [userSession EXCEPT ![jobId] = sess]
                /\ proc' = [proc EXCEPT ![jobId] =
                                [pc |-> "batch", i |-> 0, files |-> files,
                                 batches |-> 1, delays |-> 0]]
                /\ fpc' = [fpc EXCEPT ![jobId] =
                                [k \in 1..n |->
                                    IF k \in BatchOf(0, n)
                                    THEN FirstAwait(sess) ELSE "idle"]]
                /\ thrown' = [thrown EXCEPT ![jobId] = NoError]
                /\ UNCHANGED <<faults, apiCalls>>

\* processJob(jobId, sess), up to its first await (or its throw), applied to
\* the queue js
processJob(js, jobId, sess) ==
    IF jobId \in currentJobs THEN
        /\ thrown' = [thrown EXCEPT ![jobId] = ErrAlreadyProcessed]
        /\ jobs' = js
        /\ UNCHANGED <<currentJobs, userSession, proc, fpc, faults, apiCalls>>
    ELSE IF jobId \notin DOMAIN js THEN
        /\ thrown' = [thrown EXCEPT ![jobId] = ErrNotFound]
        /\ jobs' = js
        /\ UNCHANGED <<currentJobs, userSession, proc, fpc, faults, apiCalls>>
    ELSE IF js[jobId].status # "pending" THEN
        /\ thrown' = [thrown EXCEPT ![jobId] = ErrNotPending]
        /\ jobs' = js
        /\ UNCHANGED <<currentJobs, userSession, proc, fpc, faults, apiCalls>>
    ELSE IF ~sess.present \/ ~sess.googleTokens THEN
        /\ thrown' = [thrown EXCEPT ![jobId] = ErrNoSession]
        /\ jobs' = js
        /\ UNCHANGED <<currentJobs, userSession, proc, fpc, faults, apiCalls>>
    ELSE
        LET js1 == updateJobStatus(js, jobId, "processing", NoError)
            files == JobFiles(js1[jobId])
            n == Len(files)
        IN  IF n = 0 THEN
                \* throw inside try: catch marks the job failed, finally
                \* removes it from currentJobs, the error is rethrown
                /\ jobs' = updateJobStatus(js1, jobId, "failed", ErrNoFiles)
                /\ thrown' = [thrown EXCEPT ![jobId] = ErrNoFiles]
                /\ proc' = [proc EXCEPT ![jobId] = [IdleProc EXCEPT !.pc = "done"]]
                /\ UNCHANGED <<currentJobs, userSession, fpc, faults, apiCalls>>
            ELSE
                /\ jobs' = startFiles(js1, jobId, files, 1, Min(batchSize, n))
                /\ currentJobs' = currentJobs \cup {jobId}
                /\ userSession' = [userSession EXCEPT ![jobId] = sess]
                /\ proc' = [proc EXCEPT ![jobId] =
                                [pc |-> "batch", i |-> 0, files |-> files,
                                 batches |-> 1, delays |-> 0]]
                /\ fpc' = [fpc EXCEPT ![jobId] =
                                [k \in 1..n |->
                                    IF k \in BatchOf(0, n)
                                    THEN FirstAwait(sess) ELSE "idle"]]
                /\ thrown' = [thrown EXCEPT ![jobId] = NoError]
                /\ UNCHANGED <<faults, apiCalls>>

\* POST /google-drive: session check, validation, createJob, processJobAsync
PostGoogleDrive(jobId, n, sess) ==
    /\ jobId \notin DOMAIN jobs
    /\ sess.present /\ sess.googleTokens
    /\ n >= 1
    /\ processJob(
          createJob(jobs, jobId, JobData(TRUE, FilesOf(n), FALSE, <<>>)),
          jobId, sess)
    /\ UNCHANGED auxVars

\* direct call of the exported createJob with the list under the key files,
\* under googleDriveFiles, or under neither
CreateJob(jobId, jobData) ==
    /\ jobId \notin DOMAIN jobs
    /\ jobs' = createJob(jobs, jobId, jobData)
    /\ UNCHANGED <<currentJobs, userSession, proc, fpc, thrown, faults, apiCalls, auxVars>>

\* direct call of the exported processJob
ProcessJob(jobId, sess) ==
    /\ processJob(jobs, jobId, sess)
    /\ UNCHANGED auxVars

\* catch block of processSingleFile: record the failure, report the error
recordFailure(js, jobId, file, msg) ==
    updateJobProgress(
        addJobResult(js, jobId, FailureResult(file, msg), FALSE),
        jobId, ProgressData(Undef, Undef, Undef, file.name))

\* end of the try block of processSingleFile: record the success
recordSuccess(js, jobId, file) ==
    updateJobProgress(
        addJobResult(js, jobId, SuccessResult(file), TRUE),
        jobId, ProgressData(Undef, Undef, Undef, file.name))

InFlight(jobId, k, at) ==
    /\ jobId \in DOMAIN jobs
    /\ k \in DOMAIN fpc[jobId]
    /\ fpc[jobId][k] = at

\* the awaited call resolves (ok) or rejects
Settles(ok) ==
    IF ok THEN UNCHANGED faults
    ELSE faults < MaxFaults /\ faults' = faults + 1

\* a refresh error that is swallowed: the file goes on to its download with
\* the session's old token
TokenSettles_mutProceed(jobId, k, ok) ==
    /\ InFlight(jobId, k, "token")
    /\ Settles(ok)
    /\ userSession' = IF ok THEN [userSession EXCEPT ![jobId].expired = FALSE]
                      ELSE userSession
    /\ fpc' = [fpc EXCEPT ![jobId][k] = "download"]
    /\ UNCHANGED <<jobs, currentJobs, proc, thrown, apiCalls, auxVars>>

\* await tokenManager.getValidAccessToken(...) settles
TokenSettles(jobId, k, ok) ==
    /\ InFlight(jobId, k, "token")
    /\ Settles(ok)
    /\ IF ok
       THEN /\ userSession' = [userSession EXCEPT ![jobId].expired = FALSE]
            /\ fpc' = [fpc EXCEPT ![jobId][k] = "download"]
            /\ UNCHANGED jobs
       ELSE \* tempFilePath is still null: nothing to clean up
            /\ jobs' = recordFailure(jobs, jobId, proc[jobId].files[k], ErrAuth)
            /\ fpc' = [fpc EXCEPT ![jobId][k] = "settled"]
            /\ UNCHANGED userSession
    /\ UNCHANGED <<currentJobs, proc, thrown, apiCalls, auxVars>>

\* await googleDriveService.downloadFile(...) settles
DownloadSettles(jobId, k, ok) ==
    /\ InFlight(jobId, k, "download")
    /\ Settles(ok)
    /\ IF ok
       THEN /\ fpc' = [fpc EXCEPT ![jobId][k] = "store"]
            /\ UNCHANGED jobs
       ELSE /\ jobs' = recordFailure(jobs, jobId, proc[jobId].files[k], ErrDownload)
            /\ fpc' = [fpc EXCEPT ![jobId][k] = "settled"]
    /\ UNCHANGED <<currentJobs, userSession, proc, thrown, apiCalls, auxVars>>

\* "Upload to GridFS using buffer approach": await fs.promises.readFile(...)
\* and then await gridFSService.uploadFromBuffer(...) settle; either may reject
StoreSettles(jobId, k, ok) ==
    /\ InFlight(jobId, k, "store")
    /\ Settles(ok)
    /\ IF ok
       THEN /\ fpc' = [fpc EXCEPT ![jobId][k] = "save"]
            /\ UNCHANGED jobs
       ELSE /\ jobs' = recordFailure(jobs, jobId, proc[jobId].files[k], ErrStore)
            /\ fpc' = [fpc EXCEPT ![jobId][k] = "cleanup"]
    /\ UNCHANGED <<currentJobs, userSession, proc, thrown, apiCalls, auxVars>>

\* await fileDoc.save() settles
SaveSettles(jobId, k, ok) ==
    /\ InFlight(jobId, k, "save")
    /\ Settles(ok)
    /\ jobs' = IF ok
               THEN recordSuccess(jobs, jobId, proc[jobId].files[k])
               ELSE recordFailure(jobs, jobId, proc[jobId].files[k], ErrSave)
    /\ fpc' = [fpc EXCEPT ![jobId][k] = "cleanup"]
    /\ UNCHANGED <<currentJobs, userSession, proc, thrown, apiCalls, auxVars>>

\* finally block: await googleDriveService.cleanupTempFile(...) settles; a
\* cleanup error is swallowed
CleanupSettles(jobId, k) ==
    /\ InFlight(jobId, k, "cleanup")
    /\ fpc' = [fpc EXCEPT ![jobId][k] = "settled"]
    /\ UNCHANGED <<jobs, currentJobs, userSession, proc, thrown, faults, apiCalls, auxVars>>
\* the batch awaited with Promise.race: one settled file is enough
BatchSettled_mutRace(jobId) ==
    \E k \in BatchOf(proc[jobId].i, Len(proc[jobId].files)) :
        fpc[jobId][k] = "settled"

BatchSettled(jobId) ==
    \A k \in BatchOf(proc[jobId].i, Len(proc[jobId].files)) :
        fpc[jobId][k] = "settled"
\* final status that reports failed when no file succeeded
finalize_mutAllFailed(js, jobId) ==
    IF js[jobId].progress.failed > 0 /\ js[jobId].progress.completed = 0
    THEN updateJobStatus(js, jobId, "failed", NoError)
    ELSE IF js[jobId].progress.failed > 0
    THEN updateJobStatus(js, jobId, "completed_with_errors", NoError)
    ELSE updateJobStatus(js, jobId, "completed", NoError)

\* final status with the completed_with_errors branch left out
finalize_mutNoStatus(js, jobId) ==
    IF js[jobId].progress.failed > 0
    THEN js
    ELSE updateJobStatus(js, jobId, "completed", NoError)

\* final status that reports failed as soon as one file has failed
finalize_mutFailedOnError(js, jobId) ==
    IF js[jobId].progress.failed > 0
    THEN updateJobStatus(js, jobId, "failed", NoError)
    ELSE updateJobStatus(js, jobId, "completed", NoError)

\* final status of processJob after processFilesBatch returned
finalize(js, jobId) ==
    IF js[jobId].progress.failed > 0
    THEN updateJobStatus(js, jobId, "completed_with_errors", NoError)
    ELSE updateJobStatus(js, jobId, "completed", NoError)
\* the batch awaited with Promise.all: a failed file of the batch rejects it,
\* processJob's catch marks the job failed and no later batch is launched
AllSettled_mutAbortOnFailure(jobId) ==
    /\ jobId \in DOMAIN jobs
    /\ proc[jobId].pc = "batch"
    /\ BatchSettled(jobId)
    /\ IF jobs[jobId].progress.failed > 0
       THEN /\ jobs' = updateJobStatus(jobs, jobId, "failed", ErrDownload)
            /\ currentJobs' = currentJobs \ {jobId}
            /\ proc' = [proc EXCEPT ![jobId].pc = "done"]
       ELSE IF proc[jobId].i + batchSize < Len(proc[jobId].files)
       THEN /\ proc' = [proc EXCEPT ![jobId].pc = "delay",
                                     ![jobId].delays = @ + 1]
            /\ UNCHANGED <<jobs, currentJobs>>
       ELSE /\ jobs' = finalize(jobs, jobId)
            /\ currentJobs' = currentJobs \ {jobId}
            /\ proc' = [proc EXCEPT ![jobId].pc = "done"]
    /\ UNCHANGED <<userSession, fpc, thrown, faults, apiCalls, auxVars>>

\* the delay test written i + batchSize <= files.length: a list whose length
\* is a multiple of batchSize waits once more and launches an empty batch
AllSettled_mutDelayAfterLast(jobId) ==
    /\ jobId \in DOMAIN jobs
    /\ proc[jobId].pc = "batch"
    /\ BatchSettled(jobId)
    /\ IF proc[jobId].i + batchSize <= Len(proc[jobId].files)
       THEN /\ proc' = [proc EXCEPT ![jobId].pc = "delay",
                                     ![jobId].delays = @ + 1]
            /\ UNCHANGED <<jobs, currentJobs>>
       ELSE /\ jobs' = finalize(jobs, jobId)
            /\ currentJobs' = currentJobs \ {jobId}
            /\ proc' = [proc EXCEPT ![jobId].pc = "done"]
    /\ UNCHANGED <<userSession, fpc, thrown, faults, apiCalls, auxVars>>

\* processJob without its finally block: the final status is set and the
\* jobId stays in currentJobs
AllSettled_mutNoFinally(jobId) ==
    /\ jobId \in DOMAIN jobs
    /\ proc[jobId].pc = "batch"
    /\ BatchSettled(jobId)
    /\ IF proc[jobId].i + batchSize < Len(proc[jobId].files)
       THEN /\ proc' = [proc EXCEPT ![jobId].pc = "delay",
                                     ![jobId].delays = @ + 1]
            /\ UNCHANGED <<jobs, currentJobs>>
       ELSE /\ jobs' = finalize(jobs, jobId)
            /\ proc' = [proc EXCEPT ![jobId].pc = "done"]
            /\ UNCHANGED currentJobs
    /\ UNCHANGED <<userSession, fpc, thrown, faults, apiCalls, auxVars>>

\* await Promise.allSettled(batchPromises) resumes: either the inter-batch
\* delay starts, or the loop ends and processJob sets the final status
AllSettled(jobId) ==
    /\ jobId \in DOMAIN jobs
    /\ proc[jobId].pc = "batch"
    /\ BatchSettled(jobId)
    /\ IF proc[jobId].i + batchSize < Len(proc[jobId].files)
       THEN /\ proc' = [proc EXCEPT ![jobId].pc = "delay",
                                     ![jobId].delays = @ + 1]
            /\ UNCHANGED <<jobs, currentJobs>>
       ELSE /\ jobs' = finalize(jobs, jobId)
            /\ currentJobs' = currentJobs \ {jobId}
            /\ proc' = [proc EXCEPT ![jobId].pc = "done"]
    /\ UNCHANGED <<userSession, fpc, thrown, faults, apiCalls, auxVars>>

\* the 1000 ms delay elapses: i += batchSize and the next batch is launched
DelayElapsed(jobId) ==
    /\ jobId \in DOMAIN jobs
    /\ proc[jobId].pc = "delay"
    /\ LET i == proc[jobId].i + batchSize
           files == proc[jobId].files
           n == Len(files)
       IN  /\ jobs' = startFiles(jobs, jobId, files, i + 1, Min(i + batchSize, n))
           /\ proc' = [proc EXCEPT ![jobId].i = i, ![jobId].pc = "batch",
                                    ![jobId].batches = @ + 1]
           /\ fpc' = [fpc EXCEPT ![jobId] =
                        [k \in 1..n |->
                            IF k \in BatchOf(i, n)
                            THEN FirstAwait(userSession[jobId]) ELSE @[k]]]
    /\ UNCHANGED <<currentJobs, userSession, thrown, faults, apiCalls, auxVars>>

FileStep(jobId) ==
    \E k \in DOMAIN fpc[jobId], ok \in BOOLEAN :
        \/ TokenSettles(jobId, k, ok)
        \/ DownloadSettles(jobId, k, ok)
        \/ StoreSettles(jobId, k, ok)
        \/ SaveSettles(jobId, k, ok)
        \/ CleanupSettles(jobId, k)

\* ------------------------------------------------------------------------
\* The server: jobs are created by the route and driven by the processor.
Next ==
    \E jobId \in JobIds :
        \/ \E n \in 1..MaxFiles, sess \in TokenSessions :
              PostGoogleDrive(jobId, n, sess)
        \/ FileStep(jobId)
        \/ AllSettled(jobId)
        \/ DelayElapsed(jobId)

Spec == Init /\ [][Next]_vars

\* ------------------------------------------------------------------------
\* The exported singletons called directly: createJob and processJob with any
\* argument, and the JobQueue mutators on any job in any status.
ApiJobData ==
    {JobData(FALSE, <<>>, TRUE, FilesOf(n)) : n \in 0..MaxApiFiles}
    \cup {JobData(TRUE, FilesOf(n), FALSE, <<>>) : n \in 0..MaxApiFiles}
    \cup {JobData(FALSE, <<>>, FALSE, <<>>)}

ApiCall ==
    /\ apiCalls < MaxApiCalls
    /\ apiCalls' = apiCalls + 1

UpdateJobStatus(jobId, status) ==
    /\ jobId \in DOMAIN jobs
    /\ ApiCall
    /\ jobs' = updateJobStatus(jobs, jobId, status, NoError)
    /\ UNCHANGED <<currentJobs, userSession, proc, fpc, thrown, faults, auxVars>>

UpdateJobProgress(jobId, pd) ==
    /\ jobId \in DOMAIN jobs
    /\ ApiCall
    /\ jobs' = updateJobProgress(jobs, jobId, pd)
    /\ UNCHANGED <<currentJobs, userSession, proc, fpc, thrown, faults, auxVars>>

AddJobResult(jobId, k, isSuccess) ==
    /\ jobId \in DOMAIN jobs
    /\ ApiCall
    /\ jobs' = addJobResult(jobs, jobId,
                  IF isSuccess THEN SuccessResult(FileMeta(k))
                  ELSE FailureResult(FileMeta(k), ErrDownload),
                  isSuccess)
    /\ UNCHANGED <<currentJobs, userSession, proc, fpc, thrown, faults, auxVars>>

ApiProgressData ==
    {ProgressData(c, Undef, Undef, Undef) : c \in 0..MaxApiFiles}
    \cup {ProgressData(Undef, c, Undef, Undef) : c \in 0..MaxApiFiles}
    \cup {ProgressData(Undef, Undef, c, Undef) : c \in 0..MaxApiFiles}

\* lists handed to createJob directly hold at most MaxApiFiles < batchSize
\* files: one batch, so the inter-batch delay never starts
NextApi ==
    \E jobId \in JobIds :
        \/ \E jobData \in ApiJobData : CreateJob(jobId, jobData)
        \/ \E sess \in Sessions : ProcessJob(jobId, sess)
        \/ FileStep(jobId)
        \/ AllSettled(jobId)
        \/ \E status \in Statuses : UpdateJobStatus(jobId, status)
        \/ \E pd \in ApiProgressData : UpdateJobProgress(jobId, pd)
        \/ \E k \in 1..MaxApiFiles, isSuccess \in BOOLEAN :
              AddJobResult(jobId, k, isSuccess)

SpecApi == Init /\ [][NextApi]_vars

\* ------------------------------------------------------------------------
\* The processor called directly: createJob and processJob with any argument,
\* the job then driven by the processor alone.
NextProc ==
    \E jobId \in JobIds :
        \/ \E jobData \in ApiJobData : CreateJob(jobId, jobData)
        \/ \E sess \in Sessions : ProcessJob(jobId, sess)
        \/ FileStep(jobId)
        \/ AllSettled(jobId)

SpecProc == Init /\ [][NextProc]_vars

\* ------------------------------------------------------------------------
\* The server under fair scheduling: every awaited call settles, the event
\* loop resumes every settled await and every elapsed timer.
\* one batch and two batches, posted with an expired access token: the files
\* of the first batch await the refresh, those of the second may not
LiveSizes == {1, batchSize + 1}

NextLive ==
    \E jobId \in JobIds :
        \/ \E n \in LiveSizes : PostGoogleDrive(jobId, n, TokenSession(TRUE, TRUE))
        \/ FileStep(jobId)
        \/ AllSettled(jobId)
        \/ DelayElapsed(jobId)

FairSpec ==
    /\ Init /\ [][NextLive]_vars
    /\ WF_vars(\E jobId \in JobIds :
                  FileStep(jobId) \/ AllSettled(jobId) \/ DelayElapsed(jobId))

\* ------------------------------------------------------------------------
\* The per-file transfer and its temporary file: processSingleFile at the
\* grain of downloadFile's own steps. What the same segments do to the job
\* (addJobResult, updateJobProgress) is the machine above; here is what they
\* do to the temp directory.
\*   tempFilePath  the local of processSingleFile is set (not null)
\*   onDisk        the file downloadFile created is in the temp directory
\*   unlinking     an fs.unlink that downloadFile started and did not await
\*                 is still in flight
\*   blob          the blob uploadFromBuffer wrote for the file is in the store
\*   recorded      the list of results the file's outcome was added to
TransferAt(t, at) == xfers[t].pc = at

\* processSingleFile is called and suspends in downloadFile, on the metadata
\* request, the mkdir or the content request
BeginTransfer(t) ==
    /\ TransferAt(t, "idle")
    /\ xfers' = [xfers EXCEPT ![t].pc = "request"]
    /\ UNCHANGED xferFrame

\* the requests of downloadFile settle. Resolved: createWriteStream makes the
\* temp file and the stream is piped into it. Rejected (or timed out, 10 s
\* and 30 s): downloadFile throws before a file exists; in processSingleFile
\* the catch records the failure and the finally finds tempFilePath null
RequestSettles(t, ok) ==
    /\ TransferAt(t, "request")
    /\ xfers' = [xfers EXCEPT ![t] =
                    IF ok THEN [@ EXCEPT !.pc = "piping", !.onDisk = TRUE]
                    ELSE [@ EXCEPT !.pc = "settled", !.recorded = "failed"]]
    /\ UNCHANGED xferFrame

\* response.data 'end': downloadFile resolves, processSingleFile sets
\* tempFilePath and goes on to read and store the file
StreamEnds(t) ==
    /\ TransferAt(t, "piping")
    /\ xfers' = [xfers EXCEPT ![t].pc = "store", ![t].tempFilePath = TRUE]
    /\ UNCHANGED xferFrame

\* response.data 'error', writeStream 'error' or the 60 s download timeout:
\* fs.unlink(tempFilePath).catch(() => {}) is started and not awaited, and
\* the promise is rejected at once; in processSingleFile the catch records
\* the failure and the finally finds tempFilePath still null
StreamFails(t) ==
    /\ TransferAt(t, "piping")
    /\ xfers' = [xfers EXCEPT ![t].pc = "settled", ![t].unlinking = TRUE,
                              ![t].recorded = "failed"]
    /\ UNCHANGED xferFrame

\* the fs.unlink started by downloadFile completes; its error is discarded
UnlinkSettles(t, ok) ==
    /\ xfers[t].unlinking
    /\ xfers' = [xfers EXCEPT ![t].unlinking = FALSE,
                              ![t].onDisk = IF ok THEN FALSE ELSE @]
    /\ UNCHANGED xferFrame

\* readFile and uploadFromBuffer settle; a rejection goes through the catch
\* to the finally, where tempFilePath is set
TransferStored(t, ok) ==
    /\ TransferAt(t, "store")
    /\ xfers' = [xfers EXCEPT ![t] =
                    IF ok THEN [@ EXCEPT !.pc = "save", !.blob = TRUE]
                    ELSE [@ EXCEPT !.pc = "cleanup", !.recorded = "failed"]]
    /\ UNCHANGED xferFrame

\* fileDoc.save() settles: addJobResult(..., true), or the catch with
\* addJobResult(..., false), which leaves the store alone; either way the
\* finally runs next
TransferSaved(t, ok) ==
    /\ TransferAt(t, "save")
    /\ xfers' = [xfers EXCEPT ![t].pc = "cleanup",
                              ![t].recorded = IF ok THEN "successful" ELSE "failed"]
    /\ UNCHANGED xferFrame

\* finally: await cleanupTempFile(tempFilePath). cleanupTempFile catches the
\* error of its fs.unlink and logs it, so the transfer settles either way
cleanupTempFile(t, ok) ==
    /\ TransferAt(t, "cleanup")
    /\ xfers[t].tempFilePath
    /\ xfers' = [xfers EXCEPT ![t].pc = "settled",
                              ![t].onDisk = IF ok THEN FALSE ELSE @]
    /\ UNCHANGED xferFrame

NextTransfer ==
    \E t \in 1..MaxTransfers :
        \/ BeginTransfer(t)
        \/ \E ok \in BOOLEAN : RequestSettles(t, ok)
        \/ StreamEnds(t)
        \/ StreamFails(t)
        \/ \E ok \in BOOLEAN : UnlinkSettles(t, ok)
        \/ \E ok \in BOOLEAN : TransferStored(t, ok)
        \/ \E ok \in BOOLEAN : TransferSaved(t, ok)
        \/ \E ok \in BOOLEAN : cleanupTempFile(t, ok)

SpecTransfer == Init /\ [][NextTransfer]_vars

\* ------------------------------------------------------------------------
\* TokenManager (src/server/services/TokenManager.js), the login callback that
\* fills the session (src/server/routes/auth.js) and the token block of
\* processSingleFile that reads it.

\* this.tokenCache.set(cacheKey, {accessToken, refreshToken, expiryDate, cached})
cacheSet(cache, accessToken, expiryDate) ==
    (generateTokenCacheKey(accessToken) :>
        [accessToken |-> accessToken, expiryDate |-> expiryDate]) @@ cache

\* the provider issues an access token it has not issued before
Issues(accessToken) ==
    /\ accessToken \in AccessTokens \ DOMAIN provider
    /\ provider' = (accessToken :> now + TokenLifetime) @@ provider

\* the clock advances
Tick ==
    /\ now < MaxNow
    /\ now' = now + 1
    /\ UNCHANGED <<provider, tokenCache, session, calls, handed>>
    /\ UNCHANGED tmFrame

\* GET /callback: exchangeCodeForTokens caches the tokens and returns
\* expiresIn: tokens.expiry_date; then getUserProfile; then the session is
\* filled. A failing getUserProfile leaves the cache entry and no session.
Callback(accessToken, profileOk) ==
    /\ Issues(accessToken)
    /\ tokenCache' = cacheSet(tokenCache, accessToken, now + TokenLifetime)
    /\ session' = IF profileOk
                  THEN [present |-> TRUE, accessToken |-> accessToken,
                        refreshToken |-> TRUE,
                        expiresIn |-> now + TokenLifetime, createdAt |-> now]
                  ELSE session
    /\ UNCHANGED <<now, calls, handed>>
    /\ UNCHANGED tmFrame

\* if (currentAccessToken) { cached = tokenCache.get(key);
\*   if (cached && cached.expiryDate > Date.now() + 5 * 60 * 1000) ... }
\* the test that keeps the expiry margin out
CachedValid_mutNoMargin(cache, currentAccessToken, t) ==
    /\ currentAccessToken # NoToken
    /\ generateTokenCacheKey(currentAccessToken) \in DOMAIN cache
    /\ cache[generateTokenCacheKey(currentAccessToken)].expiryDate > t

CachedValid(cache, currentAccessToken, t) ==
    /\ currentAccessToken # NoToken
    /\ generateTokenCacheKey(currentAccessToken) \in DOMAIN cache
    /\ cache[generateTokenCacheKey(currentAccessToken)].expiryDate
          > t + FiveMinutes

\* getValidAccessToken up to its return or its await of refreshAccessToken
getValidAccessToken(c, currentAccessToken, forSession) ==
    /\ calls[c].pc = "idle"
    /\ calls' = [calls EXCEPT ![c] =
          IF CachedValid(tokenCache, currentAccessToken, now)
          THEN [pc |-> "returned", current |-> currentAccessToken,
                result |->
                    tokenCache[generateTokenCacheKey(currentAccessToken)].accessToken,
                refreshes |-> 0, forSession |-> forSession]
          ELSE [pc |-> "refreshing", current |-> currentAccessToken,
                result |-> NoToken, refreshes |-> 1,
                forSession |-> forSession]]

\* POST /refresh: getValidAccessToken(refreshToken, accessToken) with the
\* tokens of the request body; the access token may be left out
PostRefresh(c, currentAccessToken) ==
    /\ getValidAccessToken(c, currentAccessToken, FALSE)
    /\ UNCHANGED <<now, provider, tokenCache, session, handed>>
    /\ UNCHANGED tmFrame

\* the token block of processSingleFile (lines 122-148) on the session of
\* the login: refresh when the test says expired, else hand the session's
\* access token to downloadFile
AcquireToken(c) ==
    /\ session.present
    /\ LET tokenAge == now - session.createdAt
           tokenExpired == tokenAge > session.expiresIn * SecondsToMs
       IN  IF tokenExpired /\ session.refreshToken
           THEN /\ getValidAccessToken(c, session.accessToken, TRUE)
                /\ IF calls'[c].pc = "returned"
                   THEN \* the cached token comes back without a refresh
                        /\ session' = [session EXCEPT
                                          !.accessToken = calls'[c].result,
                                          !.createdAt = now]
                        /\ handed' = [some |-> TRUE,
                                      accessToken |-> calls'[c].result,
                                      at |-> now]
                   ELSE UNCHANGED <<session, handed>>
           ELSE /\ handed' = [some |-> TRUE, accessToken |-> session.accessToken,
                              at |-> now]
                /\ UNCHANGED <<calls, session>>
    /\ UNCHANGED <<now, provider, tokenCache>>
    /\ UNCHANGED tmFrame

\* a failed refresh that is tried again instead of thrown
RefreshSettles_mutRetry(c, ok, accessToken) ==
    /\ calls[c].pc = "refreshing"
    /\ IF ok
       THEN /\ Issues(accessToken)
            /\ tokenCache' = cacheSet(tokenCache, accessToken, now + TokenLifetime)
            /\ calls' = [calls EXCEPT ![c].pc = "returned",
                                      ![c].result = accessToken]
            /\ UNCHANGED <<session, handed>>
       ELSE /\ calls' = [calls EXCEPT
                            ![c].pc = IF @ = "refreshing" /\ calls[c].refreshes < 2
                                      THEN "refreshing" ELSE "thrown",
                            ![c].refreshes = IF @ < 2 THEN @ + 1 ELSE @]
            /\ UNCHANGED <<provider, tokenCache, session, handed>>
    /\ UNCHANGED now
    /\ UNCHANGED tmFrame

\* await oauth2Client.refreshAccessToken() settles. Resolved: the new token
\* is cached and returned; the caller in processSingleFile stores it in the
\* session and hands it to downloadFile. Rejected: Token refresh failed is
\* thrown, nothing else is done.
RefreshSettles(c, ok, accessToken) ==
    /\ calls[c].pc = "refreshing"
    /\ IF ok
       THEN /\ Issues(accessToken)
            /\ tokenCache' = cacheSet(tokenCache, accessToken, now + TokenLifetime)
            /\ calls' = [calls EXCEPT ![c].pc = "returned",
                                      ![c].result = accessToken]
            /\ IF calls[c].forSession
               THEN /\ session' = [session EXCEPT !.accessToken = accessToken,
                                                  !.createdAt = now]
                    /\ handed' = [some |-> TRUE, accessToken |-> accessToken,
                                  at |-> now]
               ELSE UNCHANGED <<session, handed>>
       ELSE /\ calls' = [calls EXCEPT ![c].pc = "thrown"]
            /\ UNCHANGED <<provider, tokenCache, session, handed>>
    /\ UNCHANGED now
    /\ UNCHANGED tmFrame

\* TokenManager called by the login and by POST /refresh
NextToken ==
    \/ Tick
    \/ \E accessToken \in AccessTokens, profileOk \in BOOLEAN :
          Callback(accessToken, profileOk)
    \/ \E c \in 1..MaxTmCalls :
          \/ \E currentAccessToken \in AccessTokens \cup {NoToken} :
                PostRefresh(c, currentAccessToken)
          \/ \E ok \in BOOLEAN, accessToken \in AccessTokens :
                RefreshSettles(c, ok, accessToken)

SpecToken == Init /\ [][NextToken]_vars

\* the same, and the files of a job taking their token from the session
NextSession ==
    \/ NextToken
    \/ \E c \in 1..MaxTmCalls : AcquireToken(c)

SpecSession == Init /\ [][NextSession]_vars

\* cleanupTokenCache deleting with expiryDate <= now: an entry that expires
\* at this very instant goes too
cleanupTokenCache_mutAtExpiry(cache, t) ==
    [k \in {key \in DOMAIN cache : ~(cache[key].expiryDate <= t)} |-> cache[k]]

\* for (const [key, value] of this.tokenCache.entries())
\*     if (value.expiryDate < now) this.tokenCache.delete(key)
cleanupTokenCache(cache, t) ==
    [k \in {key \in DOMAIN cache : ~(cache[key].expiryDate < t)} |-> cache[k]]

\* a call of cleanupTokenCache, between two segments of the other calls
CleanupTokenCache ==
    /\ tokenCache' = cleanupTokenCache(tokenCache, now)
    /\ UNCHANGED <<now, provider, session, calls, handed>>
    /\ UNCHANGED tmFrame

\* TokenManager with its cache swept at any moment
NextSweep ==
    \/ NextToken
    \/ CleanupTokenCache

SpecSweep == Init /\ [][NextSweep]_vars

\* ------------------------------------------------------------------------
\* The job queue with its timestamps (src/unnamed/part_003): created, started
\* and completed are instants of the clock, -1 where the code holds null.
\* Jobs go through their statuses as processJob drives them; cleanupOldJobs
\* is called with any maxAge (maxAgeHours * 60 * 60 * 1000, in units of the
\* clock); the hourly timer calls it with 24 hours.
Null == -1

\* createJob: status pending, timestamps.created = new Date()
StampedCreateJob(id) ==
    /\ id \notin DOMAIN stamped \cup removed
    /\ stamped' = (id :> [status |-> "pending", created |-> now,
                          started |-> Null, completed |-> Null]) @@ stamped
    /\ UNCHANGED <<now, removed, gc>>
    /\ UNCHANGED gcFrame

\* updateJobStatus with the timestamps it sets
stampStatus(job, status, t) ==
    [job EXCEPT
        !.status = status,
        !.started = IF status = "processing" /\ @ = Null THEN t ELSE @,
        !.completed = IF status \in TerminalStatuses THEN t ELSE @]

\* processJob on a pending job: updateJobStatus(jobId, 'processing')
StampedBegin(id) ==
    /\ id \in DOMAIN stamped
    /\ stamped[id].status = "pending"
    /\ stamped' = [stamped EXCEPT ![id] = stampStatus(@, "processing", now)]
    /\ UNCHANGED <<now, removed, gc>>
    /\ UNCHANGED gcFrame

\* processJob ends: updateJobStatus(jobId, <terminal status>)
StampedEnd(id, status) ==
    /\ id \in DOMAIN stamped
    /\ stamped[id].status = "processing"
    /\ status \in TerminalStatuses
    /\ stamped' = [stamped EXCEPT ![id] = stampStatus(@, status, now)]
    /\ UNCHANGED <<now, removed, gc>>
    /\ UNCHANGED gcFrame

\* cleanupOldJobs whose second test leaves out !job.timestamps.started: every
\* unfinished job created before the cutoff is deleted
Swept_mutIgnoreStarted(js, maxAge, t) ==
    {id \in DOMAIN js :
        \/ js[id].completed # Null /\ js[id].completed < t - maxAge
        \/ /\ ~(js[id].completed # Null /\ js[id].completed < t - maxAge)
           /\ js[id].created < t - maxAge}

\* the ids cleanupOldJobs deletes at instant t: cutoffTime = t - maxAge
Swept(js, maxAge, t) ==
    {id \in DOMAIN js :
        \/ js[id].completed # Null /\ js[id].completed < t - maxAge
        \/ /\ ~(js[id].completed # Null /\ js[id].completed < t - maxAge)
           /\ js[id].started = Null
           /\ js[id].created < t - maxAge}

cleanupOldJobs(maxAge) ==
    /\ gc.calls < MaxGcCalls
    /\ gc' = [calls |-> gc.calls + 1, maxAge |-> maxAge]
    /\ stamped' = [id \in DOMAIN stamped \ Swept(stamped, maxAge, now) |->
                        stamped[id]]
    /\ removed' = removed \cup Swept(stamped, maxAge, now)
    /\ UNCHANGED now
    /\ UNCHANGED gcFrame

\* getJobProgress: null for an id the queue does not hold
NotFound == [found |-> FALSE, status |-> "null"]
getJobProgress(js, id) ==
    IF id \notin DOMAIN js THEN NotFound
    ELSE [found |-> TRUE, status |-> js[id].status]

\* Math.round(a / b * 100) for 0 <= a and 0 < b: the nearest integer, halves up
RoundPercent(a, b) == (200 * a + b) \div (2 * b)

\* the projection getJobProgress builds from a job the queue holds
getJobProgressOf(job) ==
    [status |-> job.status,
     percentage |-> IF job.progress.total > 0
                    THEN RoundPercent(job.progress.completed, job.progress.total)
                    ELSE 0,
     currentFile |-> job.currentFile,
     summary |-> [total |-> job.progress.total,
                  completed |-> job.progress.completed,
                  failed |-> job.progress.failed,
                  remaining |-> job.progress.total - job.progress.completed
                                    - job.progress.failed]]

NextGc ==
    \/ Tick
    \/ \E id \in 1..MaxGcJobs :
          \/ StampedCreateJob(id)
          \/ StampedBegin(id)
          \/ \E status \in TerminalStatuses : StampedEnd(id, status)
    \/ \E maxAge \in 0..MaxGcAge : cleanupOldJobs(maxAge)

SpecGc == Init /\ [][NextGc]_vars

\* two jobs followed from createJob to their terminal status while
\* cleanupOldJobs runs with any maxAge at any moment
KeptIds == {1, 2}

NextKeep ==
    \/ Tick
    \/ \E id \in KeptIds :
          \/ StampedCreateJob(id)
          \/ StampedBegin(id)
          \/ \E status \in TerminalStatuses : StampedEnd(id, status)
    \* a negative maxAgeHours puts the cutoff in the future
    \/ \E maxAge \in -1..MaxGcAge : cleanupOldJobs(maxAge)

SpecKeep == Init /\ [][NextKeep]_vars

\* ------------------------------------------------------------------------
\* POST /google-drive with any JSON body, from any session.
MaxBodyEntries == 2

\* an entry of the list: an object with id and name, an object missing one of
\* them, or the JSON value null
Entries == {"file", "noId", "noName", "null"}

BodyLists == UNION {[1..n -> Entries] : n \in 0..MaxBodyEntries}

\* req.body.googleDriveFiles: absent, a value that is not an array, or a list
Bodies ==
    {[kind |-> "missing", list |-> <<>>], [kind |-> "notArray", list |-> <<>>]}
    \cup {[kind |-> "array", list |-> l] : l \in BodyLists}

ErrorResponse(code) == [status |-> code, jobId |-> "null", totalFiles |-> Undef]

Accepted(jobId, n) == [status |-> 202, jobId |-> jobId, totalFiles |-> n]

\* the loop for (const file of googleDriveFiles): the response it ends the
\* request with, or none when every entry has id and name; reading file.id
\* of null throws a TypeError, which the route's catch answers with 500
RECURSIVE validateEntries(_, _)
validateEntries(list, k) ==
    IF k > Len(list) THEN NoResponse
    ELSE IF list[k] = "null" THEN ErrorResponse(500)
    ELSE IF list[k] \in {"noId", "noName"} THEN ErrorResponse(400)
    ELSE validateEntries(list, k + 1)

\* the checks of the route before createJob
validateRequest(body, sess) ==
    IF ~sess.present \/ ~sess.googleTokens THEN ErrorResponse(401)
    ELSE IF body.kind # "array" \/ Len(body.list) = 0 THEN ErrorResponse(400)
    ELSE validateEntries(body.list, 1)

\* the handler answering 202 after createJob, with processJobAsync put off to
\* a later turn of the event loop
PostGoogleDriveRequest_mutRespondFirst(jobId, body, sess) ==
    LET checked == validateRequest(body, sess)
    IN  /\ IF checked = NoResponse
           THEN /\ jobId \notin DOMAIN jobs
                /\ jobs' = createJob(jobs, jobId,
                              JobData(TRUE, FilesOf(Len(body.list)), FALSE, <<>>))
                /\ UNCHANGED <<currentJobs, userSession, proc, fpc, thrown,
                               faults, apiCalls>>
                /\ http' = [body |-> body, session |-> sess,
                            response |-> Accepted(jobId, Len(body.list))]
           ELSE /\ http' = [body |-> body, session |-> sess, response |-> checked]
                /\ UNCHANGED procVars
        /\ UNCHANGED routeFrame

\* the whole handler: validation, createJob, processJobAsync up to its first
\* await, and the response
PostGoogleDriveRequest(jobId, body, sess) ==
    LET checked == validateRequest(body, sess)
    IN  /\ IF checked = NoResponse
           THEN /\ jobId \notin DOMAIN jobs
                /\ processJob(
                      createJob(jobs, jobId,
                          JobData(TRUE, FilesOf(Len(body.list)), FALSE, <<>>)),
                      jobId, sess)
                /\ http' = [body |-> body, session |-> sess,
                            response |-> Accepted(jobId, Len(body.list))]
           ELSE /\ http' = [body |-> body, session |-> sess, response |-> checked]
                /\ UNCHANGED procVars
        /\ UNCHANGED routeFrame

NextRoute ==
    \E jobId \in JobIds :
        \/ \E body \in Bodies, sess \in Sessions :
              PostGoogleDriveRequest(jobId, body, sess)
        \/ FileStep(jobId)
        \/ AllSettled(jobId)

SpecRoute == Init /\ [][NextRoute]_vars

\* the requests that pass the session check of the handler, every entry of
\* their list with id and name
AcceptSessions == {sess \in Sessions : sess.present /\ sess.googleTokens}

AcceptBodies ==
    {body \in Bodies :
        \A k \in DOMAIN body.list : body.list[k] = "file"}

NextAccept ==
    \E jobId \in JobIds :
        \/ \E body \in AcceptBodies, sess \in AcceptSessions :
              PostGoogleDriveRequest(jobId, body, sess)
        \/ FileStep(jobId)
        \/ AllSettled(jobId)

SpecAccept == Init /\ [][NextAccept]_vars

\* ------------------------------------------------------------------------
\* GridFSService.uploadFromBuffer and uploadFromPath: one store operation, its
\* upload stream (and read stream), its 30 s timer and the promise it returns.
\* Time advances in steps of ten seconds.
StoreTimeout == 3
MaxStoreElapsed == 4
MaxStoreFaults == 2

\* resolve(...) or reject(...) of the promise: the first call settles it, a
\* call on a settled promise has no effect
settle_mutLastWins(outcome, to) == to

settle(outcome, to) == IF outcome = "pending" THEN to ELSE outcome

\* an event reaches one of the handlers; the first one is remembered
Noted(st, event) ==
    IF st.first = "none"
    THEN [st EXCEPT !.first = event, !.firstAt = st.elapsed]
    ELSE st

BeginStore(via) ==
    /\ store.pc = "idle"
    /\ store' = [store EXCEPT !.via = via, !.pc = "init"]
    /\ UNCHANGED storeFrame

\* await this.ensureInitialized() settles: the promise is created, the streams
\* are opened and the timer is set, or the call rejects uninitialized
InitSettles(ok) ==
    /\ store.pc = "init"
    /\ store' = IF ok
                THEN [store EXCEPT !.pc = "open", !.timer = TRUE]
                ELSE [store EXCEPT !.pc = "closed", !.outcome = "uninitialized"]
    /\ UNCHANGED storeFrame

\* ten seconds pass; a timer that is due fires before more time passes
StoreTick ==
    /\ store.pc = "open"
    /\ store.elapsed < MaxStoreElapsed
    /\ ~(store.timer /\ store.elapsed >= StoreTimeout)
    /\ store' = [store EXCEPT !.elapsed = @ + 1]
    /\ UNCHANGED storeFrame

\* uploadStream.on('finish'): clearTimeout, resolve
OnFinish ==
    /\ store.pc = "open"
    /\ ~store.finished
    /\ store' = [Noted(store, "finish") EXCEPT
                    !.finished = TRUE,
                    !.timer = FALSE,
                    !.outcome = settle(@, "resolved")]
    /\ UNCHANGED storeFrame

\* uploadStream.on('error'), and readStream.on('error') of uploadFromPath:
\* clearTimeout, reject
OnError(stream) ==
    /\ store.pc = "open"
    /\ stream = "read" => store.via = "path"
    /\ store.faults < MaxStoreFaults
    /\ store' = [Noted(store, "fault") EXCEPT
                    !.faults = @ + 1,
                    !.timer = FALSE,
                    !.outcome = settle(@, "io")]
    /\ UNCHANGED storeFrame

\* the setTimeout callback: destroy the streams, reject
OnTimeout ==
    /\ store.pc = "open"
    /\ store.timer
    /\ store.elapsed >= StoreTimeout
    /\ store' = [Noted(store, "timeout") EXCEPT
                    !.timer = FALSE,
                    !.destroyed = TRUE,
                    !.outcome = settle(@, "timeout")]
    /\ UNCHANGED storeFrame

\* uploadStream.on('close'), emitted once the stream has finished, failed or
\* been destroyed: uploadFromPath clears the timer, nothing more is emitted
OnClose ==
    /\ store.pc = "open"
    /\ store.finished \/ store.faults > 0 \/ store.destroyed
    /\ store' = [store EXCEPT
                    !.pc = "closed",
                    !.timer = IF store.via = "path" THEN FALSE ELSE @]
    /\ UNCHANGED storeFrame

NextStore ==
    \/ \E via \in {"buffer", "path"} : BeginStore(via)
    \/ \E ok \in BOOLEAN : InitSettles(ok)
    \/ StoreTick
    \/ OnFinish
    \/ \E stream \in {"upload", "read"} : OnError(stream)
    \/ OnTimeout
    \/ OnClose

SpecStore == Init /\ [][NextStore]_vars

\* ------------------------------------------------------------------------
\* JobQueue.addLog on one job: createJob leaves logs = [], every mutator of
\* the queue then logs through addLog. The n-th call logs the message n.
LogCap == 100
MaxLogged == 110

LogEntry(message) == [level |-> "info", message |-> message]

\* addLog keeping the first 100 entries, slice(0, 100), instead of the last
addLog_mutKeepOldest(logs, message) ==
    LET pushed == Append(logs, LogEntry(message))
    IN  IF Len(pushed) > LogCap THEN SubSeq(pushed, 1, LogCap) ELSE pushed

\* job.logs.push(...), then job.logs = job.logs.slice(-100) beyond 100 entries
addLog(logs, message) ==
    LET pushed == Append(logs, LogEntry(message))
    IN  IF Len(pushed) > LogCap
        THEN SubSeq(pushed, Len(pushed) - LogCap + 1, Len(pushed))
        ELSE pushed

AddLog ==
    /\ joblog.added < MaxLogged
    /\ joblog' = [logs |-> addLog(joblog.logs, joblog.added + 1),
                  added |-> joblog.added + 1]
    /\ UNCHANGED logFrame

NextLog == AddLog

SpecLog == Init /\ [][NextLog]_vars

\* ------------------------------------------------------------------------
\* ServerGoogleDriveService.downloadFile on the one exported instance, called
\* by files of any job with the access token of their session, and the
\* readFile of the processor that follows it. The failures of the requests and
\* of the streams are followed by the transfers of the temp-file machine.
DriveTokens == {"token_a", "token_b"}

\* initializeWithToken(accessToken), then this.drive.files.get for the
\* metadata, up to the await of Promise.race
DownloadFile(d, accessToken, size) ==
    /\ dls[d].pc = "idle"
    /\ drive' = accessToken
    /\ dls' = [dls EXCEPT ![d] = [IdleDownload EXCEPT
                    !.pc = "metadata", !.accessToken = accessToken,
                    !.metaAuth = accessToken, !.size = size]]
    /\ UNCHANGED dlFrame

\* the metadata request resolves; await fs.mkdir(tempDirPath)
MetadataSettles(d) ==
    /\ dls[d].pc = "metadata"
    /\ dls' = [dls EXCEPT ![d].pc = "mkdir"]
    /\ UNCHANGED <<drive, dlFrame>>

\* mkdir resolves; this.drive.files.get({alt: 'media'}) is sent with the
\* client this.drive holds now
MkdirSettles(d) ==
    /\ dls[d].pc = "mkdir"
    /\ dls' = [dls EXCEPT ![d].pc = "content", ![d].contentAuth = drive]
    /\ UNCHANGED <<drive, dlFrame>>

\* the content request resolves with a stream; createWriteStream, pipe
ContentSettles(d) ==
    /\ dls[d].pc = "content"
    /\ dls' = [dls EXCEPT ![d].pc = "piping"]
    /\ UNCHANGED <<drive, dlFrame>>

\* response.data 'data': pipe hands the chunk to writeStream.write
ChunkArrives(d) ==
    /\ dls[d].pc = "piping"
    /\ dls[d].sent < dls[d].size
    /\ dls' = [dls EXCEPT ![d].sent = @ + 1]
    /\ UNCHANGED <<drive, dlFrame>>

\* the write stream writes a buffered chunk to the staging file
ChunkFlushed(d) ==
    /\ dls[d].pc \in {"piping", "resolved", "read"}
    /\ dls[d].flushed < dls[d].sent
    /\ dls' = [dls EXCEPT ![d].flushed = @ + 1]
    /\ UNCHANGED <<drive, dlFrame>>

\* response.data 'end': clearTimeout, resolve({tempFilePath, ...})
StreamEnd(d) ==
    /\ dls[d].pc = "piping"
    /\ dls[d].sent = dls[d].size
    /\ dls' = [dls EXCEPT ![d].pc = "resolved"]
    /\ UNCHANGED <<drive, dlFrame>>

\* processSingleFile: const fileBuffer = await fs.promises.readFile(tempFilePath)
ReadFile(d) ==
    /\ dls[d].pc = "resolved"
    /\ dls' = [dls EXCEPT ![d].pc = "read", ![d].readLen = dls[d].flushed]
    /\ UNCHANGED <<drive, dlFrame>>

NextDownload ==
    \E d \in 1..MaxDownloads :
        \/ \E accessToken \in DriveTokens, size \in 1..MaxChunks :
              DownloadFile(d, accessToken, size)
        \/ MetadataSettles(d)
        \/ MkdirSettles(d)
        \/ ContentSettles(d)
        \/ ChunkArrives(d)
        \/ ChunkFlushed(d)
        \/ StreamEnd(d)
        \/ ReadFile(d)

SpecDownload == Init /\ [][NextDownload]_vars

\* ------------------------------------------------------------------------
\* The token blocks of one batch (GoogleDriveProcessor.js 86-91, 122-148) over
\* the TokenManager's cache: batch.map calls processSingleFile for every file
\* of the batch in one synchronous segment, and each call runs to its first
\* await.

\* processJob(jobId, userSession) with a session that has a refresh token
BeginJob(expired, accessToken) ==
    /\ bt.pc = "idle"
    /\ bt.launches < MaxLaunches
    /\ bt' = [IdleBatch EXCEPT !.pc = "job", !.expired = expired,
                               !.accessToken = accessToken,
                               !.launches = bt.launches]
    /\ UNCHANGED <<provider, tokenCache>>
    /\ UNCHANGED btFrame

\* the token block of one file up to its first await: the session's token
\* when the test says valid, else getValidAccessToken, that answers from the
\* cache or sends a refresh exchange
tokenBlock(expired, accessToken, cache, t) ==
    IF ~expired THEN [pc |-> "got", result |-> accessToken]
    ELSE IF CachedValid(cache, accessToken, t)
    THEN [pc |-> "cached",
          result |-> cache[generateTokenCacheKey(accessToken)].accessToken]
    ELSE [pc |-> "refreshing", result |-> NoToken]

\* batch.map(...): the n files of the batch run their token block one after
\* the other, none of them resumed in between
LaunchBatch(n) ==
    /\ bt.pc = "job"
    /\ bt.launches < MaxLaunches
    /\ \A k \in 1..MaxBatchFiles : bt.files[k].pc \in {"none", "got", "thrown"}
    /\ LET block == tokenBlock(bt.expired, bt.accessToken, tokenCache, now)
       IN  bt' = [bt EXCEPT
                    !.files = [k \in 1..MaxBatchFiles |->
                                  IF k <= n THEN block ELSE NoTokenBlock],
                    !.exchanges = IF block.pc = "refreshing" THEN n ELSE 0,
                    !.launches = @ + 1]
    /\ UNCHANGED <<provider, tokenCache>>
    /\ UNCHANGED btFrame

\* await tokenManager.getValidAccessToken(...) resumes with the cached token:
\* the session takes it, createdAt = new Date()
CachedTokenResumes(k) ==
    /\ bt.files[k].pc = "cached"
    /\ bt' = [bt EXCEPT !.files[k].pc = "got",
                        !.accessToken = bt.files[k].result,
                        !.expired = FALSE]
    /\ UNCHANGED <<provider, tokenCache>>
    /\ UNCHANGED btFrame

\* the refresh exchange of file k settles. Resolved: the new token is cached,
\* the session takes it, createdAt = new Date(). Rejected: the file fails with
\* Authentication failed
BatchRefreshSettles(k, ok, accessToken) ==
    /\ bt.files[k].pc = "refreshing"
    /\ IF ok
       THEN /\ Issues(accessToken)
            /\ tokenCache' = cacheSet(tokenCache, accessToken, now + TokenLifetime)
            /\ bt' = [bt EXCEPT !.files[k] = [pc |-> "got", result |-> accessToken],
                                !.accessToken = accessToken,
                                !.expired = FALSE]
       ELSE /\ bt' = [bt EXCEPT !.files[k].pc = "thrown"]
            /\ UNCHANGED <<provider, tokenCache>>
    /\ UNCHANGED btFrame

\* processJob settles
JobEnds ==
    /\ bt.pc = "job"
    /\ bt.launches > 0
    /\ \A k \in 1..MaxBatchFiles : bt.files[k].pc \in {"none", "got", "thrown"}
    /\ bt' = [IdleBatch EXCEPT !.launches = bt.launches]
    /\ UNCHANGED <<provider, tokenCache>>
    /\ UNCHANGED btFrame

NextBatch ==
    \/ Tick
    \/ \E accessToken \in AccessTokens, profileOk \in BOOLEAN :
          Callback(accessToken, profileOk)
    \/ \E expired \in BOOLEAN, accessToken \in AccessTokens :
          BeginJob(expired, accessToken)
    \/ \E n \in 1..MaxBatchFiles : LaunchBatch(n)
    \/ \E k \in 1..MaxBatchFiles :
          \/ CachedTokenResumes(k)
          \/ \E ok \in BOOLEAN, accessToken \in AccessTokens :
                BatchRefreshSettles(k, ok, accessToken)
    \/ JobEnds

SpecBatch == Init /\ [][NextBatch]_vars

\* ------------------------------------------------------------------------
\* GridFSService: initialize, ensureInitialized and the operations that call
\* it (src/server/services/GridFSService.js). The server calls initialize()
\* once mongoose has connected (src/server/server.js 66-70); requests can
\* arrive before.
ErrNotInitialized == "GridFS service not initialized"
ErrTypeError == "TypeError"

\* the operations that await this.ensureInitialized() (lines 62, 149)
AwaitingOps == {"uploadFromPath", "uploadFromBuffer"}
\* the operations that call this.ensureInitialized() and go on (lines 213,
\* 256, 285, 302, 341, 389)
OtherOps ==
    {"downloadFile", "getFileInfo", "deleteFile", "listFiles", "getStats",
     "cleanupOldFiles"}

\* mongoose.connect resolves: mongoose.connection.db is available
Connects ==
    /\ ~gfs.database
    /\ gfs' = [gfs EXCEPT !.database = TRUE]
    /\ UNCHANGED op
    /\ UNCHANGED gfsFrame

\* gridFSService.initialize() of the start-up, up to its first await: the
\* bucket is created, createCollection is awaited
Initialize ==
    /\ gfs.database
    /\ gfs.inits < MaxInits
    /\ gfs' = [gfs EXCEPT !.bucket = TRUE, !.inits = @ + 1]
    /\ UNCHANGED op
    /\ UNCHANGED gfsFrame

\* the createCollection calls of an initialize settle: isInitialized = true
CollectionsReady ==
    /\ gfs.inits > 0
    /\ gfs' = [gfs EXCEPT !.isInitialized = TRUE, !.inits = @ - 1]
    /\ UNCHANGED op
    /\ UNCHANGED gfsFrame

\* ensureInitialized() up to its first await: nothing when isInitialized,
\* else initialize(), that creates the bucket and awaits createCollection, or
\* returns false when there is no database
ensureStarted(g) ==
    IF g.isInitialized THEN "none"
    ELSE IF g.database THEN "pending" ELSE "failed"

\* an operation is called and runs to its first await. One that awaits
\* ensureInitialized() suspends there; one that does not goes on to this.bucket
\* at once: the bucket of an initialization that has not finished, or null
CallOp(name) ==
    /\ op.pc = "idle"
    /\ LET init == ensureStarted(gfs)
           bucket == gfs.bucket \/ init = "pending"
       IN  /\ gfs' = [gfs EXCEPT !.bucket = bucket]
           /\ op' = IF name \in AwaitingOps
                    THEN [IdleOp EXCEPT !.name = name, !.pc = "ensuring",
                                        !.init = init]
                    ELSE IF bucket
                    THEN [IdleOp EXCEPT !.name = name, !.pc = "touched",
                                        !.init = init,
                                        !.initializedAtTouch = gfs.isInitialized]
                    ELSE [IdleOp EXCEPT !.name = name, !.pc = "rejected",
                                        !.init = init, !.error = ErrTypeError]
    /\ UNCHANGED gfsFrame

\* the initialize call made by the operation's ensureInitialized finishes
OwnInitReady ==
    /\ op.init = "pending"
    /\ gfs' = [gfs EXCEPT !.isInitialized = TRUE]
    /\ op' = [op EXCEPT !.init = "done"]
    /\ UNCHANGED gfsFrame

\* await this.ensureInitialized() resumes: the operation goes on to the
\* bucket, or throws when initialize returned false
EnsureSettles ==
    /\ op.pc = "ensuring"
    /\ op.init # "pending"
    /\ op' = IF op.init = "failed"
             THEN [op EXCEPT !.pc = "rejected", !.error = ErrNotInitialized]
             ELSE [op EXCEPT !.pc = "touched",
                             !.initializedAtTouch = gfs.isInitialized]
    /\ UNCHANGED gfs
    /\ UNCHANGED gfsFrame

\* the operation settles
OpReturns ==
    /\ op.pc \in {"touched", "rejected"}
    /\ op.init # "pending"
    /\ op' = IdleOp
    /\ UNCHANGED gfs
    /\ UNCHANGED gfsFrame

NextGridFS ==
    \/ Connects
    \/ Initialize
    \/ CollectionsReady
    \/ \E name \in AwaitingOps \cup OtherOps : CallOp(name)
    \/ OwnInitReady
    \/ EnsureSettles
    \/ OpReturns

SpecGridFS == Init /\ [][NextGridFS]_vars

\* ------------------------------------------------------------------------
\* The client's progress polling (src/google-drive/README.md 186-238): an
\* interval of two seconds sends GET /api/upload/progress/:jobId, the handler
\* of each response decides whether the interval goes on.

\* the sequence without its i-th element
RemoveAt(seq, i) == SubSeq(seq, 1, i - 1) \o SubSeq(seq, i + 1, Len(seq))

\* the upload was accepted with 202: the indicator is on, the interval and
\* the thirty-minute timer are set
PollUploadProgress ==
    /\ poll.pc = "idle"
    /\ poll' = [poll EXCEPT !.pc = "polling", !.jobStatus = "processing",
                            !.isUploading = TRUE]
    /\ UNCHANGED pollFrame

\* the server: processJob sets the job's final status
PolledJobSettles(status) ==
    /\ poll.jobStatus = "processing"
    /\ status \in TerminalStatuses
    /\ poll' = [poll EXCEPT !.jobStatus = status]
    /\ UNCHANGED pollFrame

\* the interval fires: a progress request is sent, whether or not the
\* previous one has been answered
IntervalFires ==
    /\ poll.pc = "polling"
    /\ poll.polls < MaxPolls
    /\ poll.reqs + Len(poll.resps) < MaxInFlight
    /\ poll' = [poll EXCEPT !.reqs = @ + 1, !.polls = @ + 1,
                            !.sentAfterTerminal = @ \/ poll.terminalSeen]
    /\ UNCHANGED pollFrame

\* the server answers a request with the job's status of that moment
\* (getJobProgress), or the request fails
ServerAnswers(ok) ==
    /\ poll.reqs > 0
    /\ poll' = [poll EXCEPT
                  !.reqs = @ - 1,
                  !.resps = Append(@, IF ok THEN poll.jobStatus ELSE "error")]
    /\ UNCHANGED pollFrame

\* the handler of a response: completed clears the interval and sets the
\* one-second timer that clears the indicator; failed and a failed request
\* clear the interval and the indicator; any other status leaves both
onProgress(p, status) ==
    LET seen == [p EXCEPT !.terminalSeen = @ \/ status \in TerminalStatuses]
    IN  IF status = "error"
        THEN [seen EXCEPT !.pc = "stopped", !.isUploading = FALSE]
        ELSE IF status = "completed"
        THEN [seen EXCEPT !.pc = "stopped", !.clearPending = TRUE]
        ELSE IF status = "failed"
        THEN [seen EXCEPT !.pc = "stopped", !.isUploading = FALSE]
        ELSE seen

ResponseArrives(i) ==
    /\ i \in DOMAIN poll.resps
    /\ poll' = onProgress([poll EXCEPT !.resps = RemoveAt(@, i)], poll.resps[i])
    /\ UNCHANGED pollFrame

\* setTimeout(() => { setIsUploading(false); ... }, 1000) fires
SuccessTimerFires ==
    /\ poll.clearPending
    /\ poll' = [poll EXCEPT !.clearPending = FALSE, !.isUploading = FALSE]
    /\ UNCHANGED pollFrame

\* the thirty-minute timer fires: the interval is cleared, and the indicator
\* too when the isUploading the callback closed over is true
PollingTimesOut(captured) ==
    /\ poll.pc \in {"polling", "stopped"}
    /\ ~poll.timedOut
    /\ poll' = [poll EXCEPT !.pc = "stopped", !.timedOut = TRUE,
                            !.isUploading = IF captured THEN FALSE ELSE @]
    /\ UNCHANGED pollFrame

NextPoll ==
    \/ PollUploadProgress
    \/ \E status \in TerminalStatuses : PolledJobSettles(status)
    \/ IntervalFires
    \/ \E ok \in BOOLEAN : ServerAnswers(ok)
    \/ \E i \in 1..MaxInFlight : ResponseArrives(i)
    \/ SuccessTimerFires
    \/ \E captured \in BOOLEAN : PollingTimesOut(captured)

SpecPoll == Init /\ [][NextPoll]_vars

\* ================================================================ properties
NumFiles(jobId) == Len(proc[jobId].files)

\* number of outcomes addJobResult has recorded for file k of the job
Outcomes(jobId, k) ==
    LET file == proc[jobId].files[k]
        res == jobs[jobId].results
    IN  CopiesIn(SuccessResult(file), res.successful)
        + CopiesIn(SuccessResult(file), res.failed)
        + CopiesIn(FailureResult(file, ErrAuth), res.failed)
        + CopiesIn(FailureResult(file, ErrDownload), res.failed)
        + CopiesIn(FailureResult(file, ErrStore), res.failed)
        + CopiesIn(FailureResult(file, ErrSave), res.failed)
        + CopiesIn(FailureResult(file, ErrAuth), res.successful)
        + CopiesIn(FailureResult(file, ErrDownload), res.successful)
        + CopiesIn(FailureResult(file, ErrStore), res.successful)
        + CopiesIn(FailureResult(file, ErrSave), res.successful)

FileFailed(jobId, k) ==
    \E msg \in {ErrAuth, ErrDownload, ErrStore, ErrSave} :
        BagIn(FailureResult(proc[jobId].files[k], msg), jobs[jobId].results.failed)

FileSucceeded(jobId, k) ==
    BagIn(SuccessResult(proc[jobId].files[k]), jobs[jobId].results.successful)

\* the message the call awaited at a stage of processSingleFile rejects with
StepError(stage) ==
    CASE stage = "token" -> ErrRefresh
      [] stage = "download" -> ErrDownload
      [] stage = "store" -> ErrStore
      [] stage = "save" -> ErrSave

\* files whose processSingleFile call has passed its addJobResult
Recorded(jobId) == {k \in DOMAIN fpc[jobId] : fpc[jobId][k] \in {"cleanup", "settled"}}

\* files whose processSingleFile call has started and not yet settled
Running(jobId) == {k \in DOMAIN fpc[jobId] : fpc[jobId][k] \notin {"idle", "settled"}}

\* processJob has attempted every file of a non-empty list and returned
AllAttempted(jobId) == proc[jobId].pc = "done" /\ NumFiles(jobId) > 0

\* C1: once a job's status is terminal, progress.completed + progress.failed
\* equals progress.total (for jobs created by the route as well).
C1_TerminalCountsEqualTotal ==
    \A jobId \in DOMAIN jobs :
        jobs[jobId].status \in TerminalStatuses =>
            jobs[jobId].progress.completed + jobs[jobId].progress.failed
                = jobs[jobId].progress.total

\* C2: in every reachable state progress.completed + progress.failed is at
\* most progress.total.
C2_CountsAtMostTotal ==
    \A jobId \in DOMAIN jobs :
        jobs[jobId].progress.completed + jobs[jobId].progress.failed
            <= jobs[jobId].progress.total

\* C3: when processJob has attempted all files, the final status is completed
\* iff progress.failed = 0 and completed_with_errors iff progress.failed >= 1;
\* a job whose N > 0 files all fail ends completed_with_errors, not failed,
\* with N entries in results.failed.
C3_FinalStatus ==
    \A jobId \in DOMAIN jobs :
        AllAttempted(jobId) =>
            /\ jobs[jobId].status = "completed"
                  <=> jobs[jobId].progress.failed = 0
            /\ jobs[jobId].status = "completed_with_errors"
                  <=> jobs[jobId].progress.failed >= 1
            /\ (\A k \in 1..NumFiles(jobId) : FileFailed(jobId, k)) =>
                  /\ jobs[jobId].status = "completed_with_errors"
                  /\ BagCardinality(jobs[jobId].results.failed) = NumFiles(jobId)

\* every file of the job failed on its token refresh
C3_Witness ==
    \E jobId \in DOMAIN jobs :
        /\ AllAttempted(jobId)
        /\ \A k \in 1..NumFiles(jobId) :
              BagIn(FailureResult(proc[jobId].files[k], ErrAuth),
                    jobs[jobId].results.failed)
        /\ jobs[jobId].status = "completed_with_errors"

\* C4: a failed file never keeps another file of its batch or of a later
\* batch from being attempted, and every file gets exactly one outcome from
\* addJobResult: none before its transfer has ended, one from then on, and
\* when processJob returns every file has settled with its outcome.
C4_FailuresIsolated ==
    \A jobId \in DOMAIN jobs :
        \A k \in DOMAIN fpc[jobId] :
            /\ Outcomes(jobId, k) = IF k \in Recorded(jobId) THEN 1 ELSE 0
            /\ AllAttempted(jobId) => fpc[jobId][k] = "settled"

C4_Witness ==
    \E jobId \in DOMAIN jobs :
        /\ AllAttempted(jobId)
        /\ NumFiles(jobId) > batchSize
        /\ \E k, m \in 1..batchSize :
              FileFailed(jobId, k) /\ FileSucceeded(jobId, m)
        /\ \A k \in (batchSize + 1)..NumFiles(jobId) : FileSucceeded(jobId, k)

\* C5: batches run strictly in sequence: a file is started only when every
\* file of every earlier batch has settled, so at most batchSize files of a
\* job are in flight.
C5_BatchesSequential ==
    \A jobId \in DOMAIN jobs :
        /\ \A k \in DOMAIN fpc[jobId] :
              fpc[jobId][k] # "idle" =>
                  \A m \in 1..(((k - 1) \div batchSize) * batchSize) :
                      fpc[jobId][m] = "settled"
        /\ Cardinality(Running(jobId)) <= batchSize

C5_Witness ==
    \E jobId \in DOMAIN jobs :
        \E k \in Running(jobId) : k > batchSize

\* C6: addJobResult loses no update under interleaved recordings of one job:
\* completed + failed equals the number of outcomes recorded, and each
\* counter equals the number of entries of its result list.
C6_NoLostUpdates ==
    \A jobId \in DOMAIN jobs :
        /\ jobs[jobId].progress.completed + jobs[jobId].progress.failed
              = Cardinality(Recorded(jobId))
        /\ jobs[jobId].progress.completed
              = BagCardinality(jobs[jobId].results.successful)
        /\ jobs[jobId].progress.failed
              = BagCardinality(jobs[jobId].results.failed)

C6_Witness ==
    \E jobId \in DOMAIN jobs :
        /\ jobs[jobId].progress.completed >= 2
        /\ jobs[jobId].progress.failed >= 1
        /\ \E k \in Running(jobId) : k \notin Recorded(jobId) /\ k <= batchSize

\* C7: terminal statuses are absorbing: no JobQueue or processor operation
\* changes the status of a job that is completed, completed_with_errors or
\* failed.
C7_TerminalAbsorbing ==
    [][\A jobId \in DOMAIN jobs :
          jobs[jobId].status \in TerminalStatuses =>
              jobs'[jobId].status = jobs[jobId].status]_vars

\* C8: a job's status is terminal if and only if timestamps.completed is set.
C8_TerminalIffCompletedStamp ==
    \A jobId \in DOMAIN jobs :
        jobs[jobId].status \in TerminalStatuses
            <=> jobs[jobId].timestamps.completed

C8_Witness ==
    \E jobId \in DOMAIN jobs :
        /\ jobs[jobId].status = "completed_with_errors"
        /\ jobs[jobId].timestamps.completed

\* C9: a processJob call rejected because the job is not pending or because
\* the credentials are missing leaves the job in status failed.
C9_RejectedJobFailed ==
    \A jobId \in DOMAIN jobs :
        thrown[jobId] \in {ErrAlreadyProcessed, ErrNotPending, ErrNoSession} =>
            jobs[jobId].status = "failed"

C11_NoTempFileLeft ==
    \A t \in 1..MaxTransfers :
        TransferAt(t, "settled") => ~xfers[t].onDisk

\* C12: getValidAccessToken(refreshToken, currentAccessToken) makes no refresh
\* exchange when the cache entry for currentAccessToken expires more than
\* five minutes from now, and exactly one otherwise (entry missing, expiry
\* within five minutes or past, no currentAccessToken): the call starts with
\* that many exchanges and never makes another.
C12_RefreshOnlyWhenNeeded ==
    [][\A c \in 1..MaxTmCalls :
          /\ (calls[c].pc = "idle" /\ calls'[c].pc # "idle") =>
                LET cur == calls'[c].current
                    key == generateTokenCacheKey(cur)
                    fresh == /\ cur # NoToken
                             /\ key \in DOMAIN tokenCache
                             /\ tokenCache[key].expiryDate - now > FiveMinutes
                IN  calls'[c].refreshes = IF fresh THEN 0 ELSE 1
          /\ calls[c].pc # "idle" =>
                calls'[c].refreshes = calls[c].refreshes]_vars

\* a call is refreshing although its token has a cache entry that has not
\* expired: the entry is within five minutes of its expiry
C12_Witness ==
    \E c \in 1..MaxTmCalls :
        /\ calls[c].pc = "refreshing"
        /\ calls[c].refreshes = 1
        /\ calls[c].current # NoToken
        /\ generateTokenCacheKey(calls[c].current) \in DOMAIN tokenCache
        /\ LET entry == tokenCache[generateTokenCacheKey(calls[c].current)]
           IN  /\ entry.accessToken = calls[c].current
               /\ entry.expiryDate > now
               /\ entry.expiryDate <= now + FiveMinutes

\* C13: when the token acquisition of a file fails with a refresh error, the
\* file is recorded as failed with the authentication-failed reason, neither
\* download nor store is attempted for it, and the acquisition is not tried
\* again: the file goes from its refresh straight to settled with that one
\* outcome and stays settled; the reason is recorded from nowhere else.
C13_AuthFailureStopsFile ==
    [][\A jobId \in DOMAIN jobs : \A k \in DOMAIN fpc[jobId] :
          LET authFailure == FailureResult(proc[jobId].files[k], ErrAuth)
          IN  /\ (fpc[jobId][k] = "token" /\ fpc'[jobId][k] # "token") =>
                    IF faults' > faults
                    THEN /\ fpc'[jobId][k] = "settled"
                         /\ BagIn(authFailure, jobs'[jobId].results.failed)
                         /\ Outcomes(jobId, k)' = 1
                    ELSE /\ fpc'[jobId][k] = "download"
                         /\ jobs'[jobId].results = jobs[jobId].results
              /\ fpc[jobId][k] = "settled" => fpc'[jobId][k] = "settled"
              /\ (/\ fpc[jobId][k] # "token"
                  /\ jobs'[jobId].results.failed # jobs[jobId].results.failed
                  /\ BagIn(authFailure, jobs'[jobId].results.failed)) =>
                    BagIn(authFailure, jobs[jobId].results.failed)]_vars

\* a file has failed on its refresh and settled while a file of its batch
\* that got its token is still being transferred
C13_Witness ==
    \E jobId \in DOMAIN jobs :
        \E k, m \in DOMAIN fpc[jobId] :
            /\ BagIn(FailureResult(proc[jobId].files[k], ErrAuth),
                     jobs[jobId].results.failed)
            /\ fpc[jobId][k] = "settled"
            /\ fpc[jobId][m] \in {"download", "store", "save"}

\* C14: every access token processSingleFile hands to the download is
\* unexpired at that moment: once the provider's expiry instant of the
\* session token has passed, a refresh comes before the download.
C14_HandedTokenUnexpired ==
    handed.some => provider[handed.accessToken] > handed.at

\* C15: on a cache hit getValidAccessToken returns the currentAccessToken it
\* was called with, whatever tokens have been cached, tokens that share their
\* first ten characters included.
C15_CacheHitReturnsCurrent ==
    \A c \in 1..MaxTmCalls :
        (calls[c].pc = "returned" /\ calls[c].refreshes = 0) =>
            calls[c].result = calls[c].current

\* C16: a failed refresh exchange is thrown to the caller after one attempt,
\* never tried again, and the token cache is left as it was: neither the
\* start of the exchange nor its failure changes the cache, a refreshing call
\* makes no further exchange, and a call that has thrown stays as it is.
C16_FailedRefreshSurfaced ==
    [][\A c \in 1..MaxTmCalls :
          /\ (calls[c].pc = "idle" /\ calls'[c].pc = "refreshing") =>
                /\ tokenCache' = tokenCache
                /\ calls'[c].refreshes = 1
          /\ calls[c].pc = "refreshing" =>
                /\ calls'[c].refreshes = calls[c].refreshes
                /\ calls'[c].pc \in {"refreshing", "returned", "thrown"}
                /\ calls'[c].pc = "thrown" => tokenCache' = tokenCache
          /\ calls[c].pc = "thrown" => calls'[c] = calls[c]]_vars

\* a refresh has failed while the cache held an entry
C16_Witness ==
    \E c \in 1..MaxTmCalls :
        /\ calls[c].pc = "thrown"
        /\ calls[c].refreshes = 1
        /\ DOMAIN tokenCache # {}

\* C17: garbageCollect(maxAge) removes every job whose timestamps.completed
\* is older than maxAge and every never-started pending job whose created is
\* older than maxAge; with maxAge = 0 it removes all terminal jobs and stale
\* pending jobs at once; and getJobProgress reports not-found for a removed
\* id from then on.
C17_GarbageCollect ==
    [][/\ gc'.calls # gc.calls =>
            \A id \in DOMAIN stamped :
                LET job == stamped[id]
                    maxAge == gc'.maxAge
                IN  /\ (job.completed # Null /\ now - job.completed > maxAge) =>
                          id \notin DOMAIN stamped'
                    /\ (/\ job.status = "pending"
                        /\ job.started = Null
                        /\ now - job.created > maxAge) =>
                          id \notin DOMAIN stamped'
                    /\ (maxAge = 0 /\ job.status \in TerminalStatuses) =>
                          id \notin DOMAIN stamped'
       /\ \A id \in removed' : getJobProgress(stamped', id) = NotFound]_vars

\* C18: createJob with an empty source-file list fails and registers no job,
\* so no job of the queue has an empty list; with a non-empty list it
\* registers a pending job whose progress.total is the number of files.
C18_CreateJobValidates ==
    \A jobId \in DOMAIN jobs :
        /\ Len(JobFiles(jobs[jobId])) > 0
        /\ jobs[jobId].data.hasFiles =>
              jobs[jobId].progress.total = Len(jobs[jobId].data.files)

\* C19: updateJobStatus(jobId, 'processing') moves a job to processing only
\* from pending, recording timestamps.started; on a job that is not pending
\* it changes neither the status nor the timestamps.
C19_BeginProcessingGuarded ==
    [][\A jobId \in DOMAIN jobs :
          (jobs'[jobId].status = "processing"
              /\ jobs[jobId].status # "processing") =>
                /\ jobs[jobId].status = "pending"
                /\ jobs'[jobId].timestamps.started
                /\ jobs'[jobId].timestamps.completed
                      = jobs[jobId].timestamps.completed]_vars

\* C20: a job is failed only through a setup-time error before any file is
\* attempted: status failed implies that no file of the job was started and
\* that results.successful and results.failed are empty.
C20_FailedBeforeAnyFile ==
    \A jobId \in DOMAIN jobs :
        jobs[jobId].status = "failed" =>
            /\ \A k \in DOMAIN fpc[jobId] : fpc[jobId][k] = "idle"
            /\ jobs[jobId].results.successful = EmptyBag
            /\ jobs[jobId].results.failed = EmptyBag
            /\ jobs[jobId].progress.completed = 0
            /\ jobs[jobId].progress.failed = 0

\* processJob found no files in the job's data and marked the job failed
C20_Witness ==
    \E jobId \in DOMAIN jobs :
        /\ jobs[jobId].status = "failed"
        /\ jobs[jobId].error = ErrNoFiles
        /\ thrown[jobId] = ErrNoFiles

\* number of batches a list of n files is cut into: ceil(n / batchSize)
NumBatches(n) == (n + batchSize - 1) \div batchSize

\* files whose processSingleFile call has been made
Started(jobId) == {k \in DOMAIN fpc[jobId] : fpc[jobId][k] # "idle"}

\* C21: a job of N files is processed in exactly ceil(N / batchSize) batches,
\* each of batchSize files except possibly the last, and the inter-batch delay
\* is started exactly ceil(N / batchSize) - 1 times: once between two
\* consecutive batches and never after the last one.
C21_BatchesAndDelays ==
    \A jobId \in DOMAIN jobs :
        LET n == NumFiles(jobId)
            p == proc[jobId]
        IN  n > 0 =>
                /\ p.batches \in 1..NumBatches(n)
                /\ p.delays = IF p.pc = "delay" THEN p.batches ELSE p.batches - 1
                /\ Started(jobId) = 1..Min(p.batches * batchSize, n)
                /\ p.pc = "delay" => p.batches < NumBatches(n)
                /\ p.pc = "done" =>
                        /\ p.batches = NumBatches(n)
                        /\ p.delays = NumBatches(n) - 1

\* a job of more than batchSize files has been through its last batch
C21_Witness ==
    \E jobId \in DOMAIN jobs :
        /\ AllAttempted(jobId)
        /\ NumFiles(jobId) > batchSize
        /\ proc[jobId].batches = 2
        /\ proc[jobId].delays = 1

\* the file list of a body is missing, not an array, empty, or holds an entry
\* without id or name
InvalidList(body) ==
    \/ body.kind # "array"
    \/ Len(body.list) = 0
    \/ \E k \in DOMAIN body.list : body.list[k] # "file"

\* C22: the job-creation endpoint answers 400 and creates no job (JobQueue
\* unchanged, no processing started) when the file list is missing, not an
\* array, empty, or contains an entry lacking id or name; otherwise it creates
\* exactly one job and answers 202 with its jobId and totalFiles equal to the
\* list length. Requests of a logged-in session.
C22_ValidatesBeforeCreating ==
    [][(http' # http /\ http'.session.present /\ http'.session.googleTokens) =>
          IF InvalidList(http'.body)
          THEN /\ http'.response.status = 400
               /\ UNCHANGED procVars
          ELSE /\ http'.response.status = 202
               /\ http'.response.totalFiles = Len(http'.body.list)
               /\ http'.response.jobId \notin DOMAIN jobs
               /\ DOMAIN jobs' = DOMAIN jobs \cup {http'.response.jobId}
      ]_vars

\* C23: getJobProgress returns, for every known job, percentage =
\* round(100 * completed / total), the integer nearest to that quotient, and
\* remaining = total - completed - failed, from the job's current progress; for
\* an unknown id it returns not-found.
C23_ProgressProjection ==
    \A jobId \in JobIds :
        IF jobId \in DOMAIN jobs
        THEN LET view == getJobProgressOf(jobs[jobId])
                 total == jobs[jobId].progress.total
                 completed == jobs[jobId].progress.completed
                 failed == jobs[jobId].progress.failed
             IN  /\ 2 * total * view.percentage <= 200 * completed + total
                 /\ 200 * completed + total < 2 * total * (view.percentage + 1)
                 /\ view.summary.remaining = total - completed - failed
        ELSE getJobProgress(jobs, jobId) = NotFound

\* C24: while a job is processed progress.total never changes, completed,
\* failed and current never decrease from one state to the next, and
\* results.successful and results.failed only grow.
C24_ProgressMonotone ==
    [][\A jobId \in DOMAIN jobs :
          LET before == jobs[jobId]
              after == jobs'[jobId]
          IN  /\ after.progress.total = before.progress.total
              /\ after.progress.completed >= before.progress.completed
              /\ after.progress.failed >= before.progress.failed
              /\ after.progress.current >= before.progress.current
              /\ before.results.successful \sqsubseteq after.results.successful
              /\ before.results.failed \sqsubseteq after.results.failed
      ]_vars

\* a second batch is in flight after files of the first succeeded and failed
C24_Witness ==
    \E jobId \in DOMAIN jobs :
        /\ jobs[jobId].status = "processing"
        /\ jobs[jobId].progress.completed >= 1
        /\ jobs[jobId].progress.failed >= 1
        /\ jobs[jobId].progress.current > batchSize

\* C25: while a job is processed, currentFile and progress.current refer to
\* the same file, the most recently started one: after any interleaving of
\* file starts and completions within a batch, currentFile is the name of the
\* file whose index is progress.current.
C25_CurrentFileIsCurrentIndex ==
    \A jobId \in DOMAIN jobs :
        (jobs[jobId].status = "processing" /\ jobs[jobId].progress.current > 0) =>
            jobs[jobId].currentFile
                = proc[jobId].files[jobs[jobId].progress.current].name

\* C26: for every per-file failure the entry appended to results.failed
\* carries, verbatim, the error message produced by the step that failed: the
\* token refresh, the download, the store or the record save.
C26_FailureMessageVerbatim ==
    [][\A jobId \in DOMAIN jobs :
          \A k \in DOMAIN fpc[jobId] :
              (/\ fpc[jobId][k] \in {"token", "download", "store", "save"}
               /\ fpc'[jobId][k] # fpc[jobId][k]
               /\ jobs'[jobId].results.failed # jobs[jobId].results.failed) =>
                  jobs'[jobId].results.failed =
                      jobs[jobId].results.failed (+)
                          SetToBag({FailureResult(proc[jobId].files[k],
                                                  StepError(fpc[jobId][k]))})
      ]_vars

\* the outcome the promise of a store operation takes from an event
OutcomeOf(event) ==
    CASE event = "none" -> "pending"
      [] event = "finish" -> "resolved"
      [] event = "fault" -> "io"
      [] event = "timeout" -> "timeout"

\* C27: a store operation settles exactly once: with a timeout error if no
\* finish (and no fault) has come within 30 seconds of starting, with an I/O
\* error on a stream fault, with success on finish; once settled, a later
\* timeout, error or finish does not change the outcome.
C27_StoreSettlesOnce ==
    store.pc \in {"open", "closed"} /\ store.outcome # "uninitialized" =>
        /\ store.outcome = OutcomeOf(store.first)
        /\ store.first = "timeout" => store.firstAt = StoreTimeout
        /\ store.first \in {"finish", "fault"} => store.firstAt <= StoreTimeout
        /\ store.outcome = "pending" =>
              store.timer /\ store.elapsed <= StoreTimeout

\* the timer has fired, and a late fault and a late finish have followed
C27_Witness ==
    /\ store.first = "timeout"
    /\ store.finished
    /\ store.faults > 0
    /\ store.outcome = "timeout"

\* C28: a job's log never holds more than 100 entries, and an entry added to
\* a full log evicts the oldest: the log is always the last up-to-100 entries
\* added, in the order they were added.
C28_LogBounded ==
    LET kept == Min(joblog.added, LogCap)
    IN  /\ Len(joblog.logs) <= LogCap
        /\ joblog.logs =
              [i \in 1..kept |-> LogEntry(joblog.added - kept + i)]

\* entries have been added to a full log
C28_Witness ==
    /\ joblog.added > LogCap
    /\ Len(joblog.logs) = LogCap
    /\ joblog.logs[1] = LogEntry(joblog.added - LogCap + 1)

\* a step of cleanupTokenCache that removes something: the only step that
\* changes the cache without the provider issuing a token
SweepStep ==
    /\ tokenCache' # tokenCache
    /\ provider' = provider

\* the getValidAccessToken call c has stored and returned a token that has not
\* expired
StoredFresh(c) ==
    /\ calls[c].pc = "returned"
    /\ calls[c].refreshes > 0
    /\ provider[calls[c].result] > now

\* C29: cleanupTokenCache removes exactly the cache entries whose expiry has
\* passed and leaves all the others unchanged; interleaved with a
\* getValidAccessToken call it never removes the entry that call has just
\* stored for a fresh token.
C29_SweepExpiredOnly ==
    [][SweepStep =>
          /\ DOMAIN tokenCache' =
                {k \in DOMAIN tokenCache : tokenCache[k].expiryDate >= now}
          /\ \A k \in DOMAIN tokenCache' : tokenCache'[k] = tokenCache[k]
          /\ \A c \in 1..MaxTmCalls :
                StoredFresh(c) =>
                    generateTokenCacheKey(calls[c].result) \in DOMAIN tokenCache'
      ]_vars

\* a sweep has removed an expired entry and kept the entry of a refresh that
\* has returned a token still valid
C29_Witness ==
    /\ \E accessToken \in DOMAIN provider :
          /\ provider[accessToken] < now
          /\ generateTokenCacheKey(accessToken) \notin DOMAIN tokenCache
    /\ \E c \in 1..MaxTmCalls :
          /\ StoredFresh(c)
          /\ generateTokenCacheKey(calls[c].result) \in DOMAIN tokenCache

\* how far the processSingleFile call of a file has got
StageRank(stage) ==
    CASE stage = "idle" -> 0
      [] stage = "token" -> 1
      [] stage = "download" -> 2
      [] stage = "store" -> 3
      [] stage = "save" -> 4
      [] stage = "cleanup" -> 5
      [] stage = "settled" -> 6

\* C30: each job is processed at most once: whatever the interleaving of
\* processJob calls on one jobId, once a call has passed the guards no other
\* call attempts the files again, and a call that throws on the guards leaves
\* the job's status, progress and results as they were.
C30_ProcessedAtMostOnce ==
    [][\A jobId \in JobIds :
          /\ proc[jobId].pc # "idle" =>
                /\ proc'[jobId].pc # "idle"
                /\ proc'[jobId].files = proc[jobId].files
                /\ \A k \in DOMAIN fpc[jobId] :
                      StageRank(fpc'[jobId][k]) >= StageRank(fpc[jobId][k])
                /\ thrown'[jobId] # thrown[jobId] =>
                      thrown'[jobId] \in {ErrAlreadyProcessed, ErrNotPending}
          /\ (/\ thrown'[jobId] # thrown[jobId]
              /\ thrown'[jobId] \in {ErrAlreadyProcessed, ErrNotFound,
                                      ErrNotPending, ErrNoSession}) =>
                UNCHANGED <<jobs, currentJobs, proc, fpc>>
      ]_vars

\* a second processJob call was refused while the files of the first were in
\* flight
C30_Witness ==
    \E jobId \in DOMAIN jobs :
        /\ thrown[jobId] = ErrAlreadyProcessed
        /\ jobs[jobId].status = "processing"
        /\ \E k \in DOMAIN fpc[jobId] : fpc[jobId][k] \in {"store", "save"}

\* C31: downloads do not mix credentials: for any interleaving of concurrent
\* downloadFile calls on the shared instance, the metadata request and the
\* content request of a call are both made with the access token passed to
\* that call.
C31_OwnCredentials ==
    \A d \in 1..MaxDownloads :
        /\ dls[d].metaAuth \in {NoClient, dls[d].accessToken}
        /\ dls[d].contentAuth \in {NoClient, dls[d].accessToken}

\* C32: the content stored for a file is its complete downloaded content:
\* the buffer the processor reads from the staging file once downloadFile has
\* resolved holds every downloaded chunk, never a truncated prefix.
C32_CompleteContent ==
    \A d \in 1..MaxDownloads :
        dls[d].pc = "read" => dls[d].readLen = dls[d].size

\* C33: a file recorded in results.failed leaves no stored blob behind: if the
\* upload to the blob store succeeded and a later step of the same transfer
\* fails, the blob written for the file is removed, so that every blob in the
\* store belongs to a file of some results.successful.
C33_NoOrphanBlob ==
    \A t \in 1..MaxTransfers :
        xfers[t].blob => xfers[t].recorded \in {"none", "successful"}

\* C34: in every reachable state of a job driven by the processor,
\* results.successful has exactly progress.completed entries and
\* results.failed has exactly progress.failed entries.
C34_ResultsMatchCounters ==
    \A jobId \in DOMAIN jobs :
        /\ BagCardinality(jobs[jobId].results.successful)
              = jobs[jobId].progress.completed
        /\ BagCardinality(jobs[jobId].results.failed)
              = jobs[jobId].progress.failed

\* a job of two batches has recorded successes and a failure
C34_Witness ==
    \E jobId \in DOMAIN jobs :
        /\ jobs[jobId].progress.completed > batchSize - 1
        /\ jobs[jobId].progress.failed = 1
        /\ BagCardinality(jobs[jobId].results.failed) = 1

\* C35: currentJobs tracks exactly the running jobs: at every suspension
\* point a jobId is in currentJobs if and only if a processJob call for it has
\* passed its guards and not yet settled, every job in currentJobs has status
\* processing, and once processJob has settled (resolved or rejected) the
\* jobId is no longer in currentJobs.
C35_CurrentJobsAreRunning ==
    \A jobId \in JobIds :
        /\ jobId \in currentJobs <=> proc[jobId].pc \in {"batch", "delay"}
        /\ jobId \in currentJobs =>
              /\ jobId \in DOMAIN jobs
              /\ jobs[jobId].status = "processing"
        /\ proc[jobId].pc = "done" => jobId \notin currentJobs

\* a call that passed its guards has processed its files and settled, and a
\* later call on the same job was rejected by the status guard
C35_Witness ==
    \E jobId \in DOMAIN jobs :
        /\ proc[jobId].pc = "done"
        /\ jobs[jobId].progress.completed + jobs[jobId].progress.failed > 0
        /\ thrown[jobId] = ErrNotPending
        /\ jobId \notin currentJobs

\* C36: garbage collection never removes a job that is being processed: for
\* any maxAge and any interleaving of cleanupOldJobs with processJob, a job
\* whose status is processing stays in the queue, so getJobProgress never
\* reports not-found for a job between its start and its terminal status.
C36_ProcessingJobKept ==
    [][\A id \in DOMAIN stamped :
          stamped[id].status = "processing" =>
              /\ id \in DOMAIN stamped'
              /\ getJobProgress(stamped', id).found]_vars

\* cleanupOldJobs has removed a job and kept a job that is being processed and
\* was created before the cutoff of the last call
C36_Witness ==
    /\ gc.calls > 0
    /\ gc.maxAge >= 0
    /\ removed # {}
    /\ \E id \in DOMAIN stamped :
          /\ stamped[id].status = "processing"
          /\ stamped[id].created < now - gc.maxAge

\* C37: redundant refreshes are avoided within a batch: when several files of
\* one batch find the session token expired at the same time, at most one
\* refresh exchange is sent to the identity provider for that session and the
\* other files reuse its result.
C37_OneRefreshPerBatch ==
    bt.exchanges <= 1

\* C38: the 202 response is truthful: at the moment the job-creation handler
\* sends its response carrying status "processing", the created job's status
\* in the JobQueue is processing (never still pending, never already failed),
\* given that the handler's session check passed.
C38_AcceptedIsProcessing ==
    [][(http' # http /\ http'.response.status = 202) =>
          /\ http'.response.jobId \in DOMAIN jobs'
          /\ jobs'[http'.response.jobId].status = "processing"
          /\ http'.response.jobId \in currentJobs'
      ]_vars

\* the handler has just answered 202: the job is processing and every file of
\* its first batch is at its first await
C38_Witness ==
    /\ http.response.status = 202
    /\ http.response.jobId \in DOMAIN jobs
    /\ jobs[http.response.jobId].status = "processing"
    /\ http.response.totalFiles = MaxBodyEntries
    /\ \A k \in DOMAIN fpc[http.response.jobId] :
          fpc[http.response.jobId][k] = FirstAwait(http.session)

\* C39: every blob-store operation runs only after the store is initialized:
\* downloadFile, getFileInfo, deleteFile, listFiles and getStats called while
\* isInitialized is false wait for initialization to finish (or fail with
\* 'GridFS service not initialized') before touching the bucket, exactly as
\* the upload operations do.
C39_InitializedBeforeUse ==
    /\ op.pc = "touched" => op.initializedAtTouch
    /\ op.pc = "rejected" => op.error = ErrNotInitialized

\* C40: the client's progress polling loop stops as soon as the polled job
\* reports any terminal status (completed, completed_with_errors or failed):
\* after such a response no further progress request is sent and the
\* uploading indicator is cleared (at once, or by the timer then set).
C40_PollingStopsOnTerminal ==
    poll.terminalSeen =>
        /\ poll.pc = "stopped"
        /\ ~poll.sentAfterTerminal
        /\ ~poll.isUploading \/ poll.clearPending
====
